---- MODULE Spec2Model ----
(***************************************************************************)
(* Marketplace listing tracker of the RWA token platform                   *)
(* (backend/services/mongodb_service.py) and the HTTP routes in front of   *)
(* it (backend/routes/marketplace_routes.py), together with the part of    *)
(* the XRPL ledger the routes look at.                                     *)
(*                                                                         *)
(* A MongoDB document is a function from field names to values, so that    *)
(* "$set" and dict.update are function override (Merge).  listing_id is a  *)
(* uuid4 in the code; the model draws the next unused natural number.      *)
(* datetime.utcnow() reads the clock `now`; BSON stores a datetime         *)
(* truncated to the millisecond (Ms), isoformat() strings keep the full    *)
(* resolution.  Every request takes time: each is handled at its own      *)
(* clock tick, and TicksPerMs consecutive ticks share a millisecond.       *)
(***************************************************************************)
EXTENDS Integers, Sequences, FiniteSets, TLC

\* ------------------------------------------------------------- bounds
MaxTime == 4
MaxListings == 3
TicksPerMs == 2

\* ------------------------------------------------------------- inputs
\* Request fields are JSON strings; NoVal stands for a missing or empty one.
Accounts == {"rA", "rB"}
NFTs == {"n1", "n2"}
TxHashes == {"h1"}
MetaHashes == {"m1"}
PricesXrp == {1}
Blobs == {"blob"}
Procs == {1, 2}
NoVal == ""
NoId == 0
MaxWorkers == 2
WorkerIds == 1..MaxWorkers
\* None in NFTApp.wallet_data
NoWallet == [classic_address |-> NoVal, seed |-> NoVal]
\* No current_wallet.json on disk.
NoFile == "absent"
\* A thread slot with no worker in it.
IdleWorker == [kind |-> "idle"]
\* What #balance-info shows: nothing, "Fetching balance...", or a balance.
Blank == [shown |-> "none", xrp |-> 0]
Fetching == [shown |-> "fetching", xrp |-> 0]
Balance(xrp) == [shown |-> "balance", xrp |-> xrp]
ListingIds == 1..(MaxListings + 1)
Statuses == {"active", "completed", "cancelled", "sold", "invalid"}

DROPS_PER_XRP == 1000000

VARIABLES
    marketplace_listings,   \* db.marketplace_listings, in insertion order
    nft_owner,              \* the ledger: which account holds each NFT
    ledger_moves,           \* the ledger's history: <<nft, from, to>> transfers applied
    submitted,              \* transactions handed to the ledger by buy/submit
    now,                    \* the clock read by datetime.utcnow()
    resp,                   \* the response (or service result) of the last request
    calls,                  \* create_listing calls between their check and their insert
    nft_metadata,           \* db.nft_metadata, in insertion order
    calc,                   \* arguments and results of the pure functions applied
    wallets,                \* table wallets of the registry
    tokens,                 \* table tokens
    transactions,           \* table transactions
    xrpl_txs,               \* transactions submitted to the ledger by token issuance
    nfts,                   \* db.nfts, in insertion order
    self_wallet_data,       \* terminal client: NFTApp.wallet_data, the wallet in memory
    current_wallet_file,    \* terminal client: the address in current_wallet.json
    wallet_files,           \* terminal client: the addresses with a file in wallets/
    balance_info,           \* terminal client: what the #balance-info widget shows
    workers                 \* terminal client: the @work threads and where each one is

vars == <<marketplace_listings, nft_owner, ledger_moves, submitted, now, resp, calls,
          nft_metadata, calc, wallets, tokens, transactions, xrpl_txs, nfts,
          self_wallet_data, current_wallet_file, wallet_files, balance_info, workers>>

\* What a marketplace request never touches: the registry tables and the
\* ledger side of token issuance.
registry_vars == <<wallets, tokens, transactions, xrpl_txs>>

\* The state of the terminal client, which no request handler touches.
client_vars == <<self_wallet_data, current_wallet_file, wallet_files, balance_info, workers>>

\* What a listing request leaves alone besides.
off_market == <<nft_metadata, calc, registry_vars, nfts, client_vars>>

\* ------------------------------------------------------------ helpers
Ms(t) == t \div TicksPerMs

Merge(d, e) ==
    [k \in (DOMAIN d) \cup (DOMAIN e) |-> IF k \in DOMAIN e THEN e[k] ELSE d[k]]

First(S) == CHOOSE i \in S : \A j \in S : i <= j

NoData == [kind |-> "none"]
DictData(d) == [kind |-> "dict", val |-> d]
StrData(s) == [kind |-> "str", val |-> s]

Truthy(additional_data) ==
    \/ additional_data.kind = "dict" /\ DOMAIN additional_data.val # {}
    \/ additional_data.kind = "str" /\ additional_data.val # NoVal

\* What the last request was and how it was answered.  status and data are
\* the arguments of a direct update_listing_status call.
Response(route, code, body, nft_id, listing_id) ==
    [route |-> route, code |-> code, body |-> body,
     nft_id |-> nft_id, listing_id |-> listing_id,
     status |-> NoVal, data |-> NoData]

NoResponse == Response("none", 0, NoVal, NoVal, NoId)

IdleCall == [pc |-> "idle", nft_id |-> NoVal, seller_address |-> NoVal,
             price_xrp |-> 0, metadata_hash |-> NoVal]

\* ------------------------------------------------------------- ledger
verify_nft_ownership(owner, address, nft_id) ==
    nft_id \in DOMAIN owner /\ owner[nft_id] = address

submit_signed_transaction(log, kind, account, destination, engine_ok) ==
    Append(log, [tx |-> kind, account |-> account,
                 destination |-> destination, success |-> engine_ok])

\* ----------------------------------------------------------- metadata
\* A metadata object is a Python dict: a sequence of <<key, value>> pairs with
\* distinct keys, in insertion order.  Two dicts are equal when they hold the
\* same pairs, whatever the order.
MetaKeys == {"name", "type"}
MetaValues == {"a", "b"}

IsDict(m) == \A i, j \in 1..Len(m) : m[i][1] = m[j][1] => i = j

MetadataInputs ==
    {m \in UNION {[1..n -> MetaKeys \X MetaValues] : n \in 0..Cardinality(MetaKeys)} :
        IsDict(m)}

Pairs(m) == {m[i] : i \in 1..Len(m)}

SameDict(m1, m2) == Pairs(m1) = Pairs(m2)

\* The characters the serialisation is made of, in code-point order: the
\* position of a key here is its place in sorted(keys).
Symbols == <<"a", "b", "name", "type">>

Code(x) == CHOOSE i \in 1..Len(Symbols) : Symbols[i] = x

\* The items of the dict as json.dumps writes them: key, value, key, value...
Items(m) == [i \in 1..(2 * Len(m)) |-> m[(i + 1) \div 2][IF i % 2 = 1 THEN 1 ELSE 2]]

\* Mutant: json.dumps(metadata) without sort_keys, the items in insertion order.
json_dumps_unsorted(m) == Items(m)

\* json.dumps(metadata, sort_keys=True)
json_dumps_sort_keys(m) ==
    Items(SortSeq(m, LAMBDA p, q : Code(p[1]) < Code(q[1])))

RECURSIVE Digest(_)
\* hashlib.sha256(s).hexdigest()[:16]: a number that depends on every
\* character of s and on their order; taken without collisions on the short
\* strings considered.
Digest(s) ==
    IF s = <<>> THEN 0
    ELSE Digest(SubSeq(s, 1, Len(s) - 1)) * (Len(Symbols) + 1) + Code(s[Len(s)])

compute_metadata_hash(m) == Digest(json_dumps_sort_keys(m))

verify_metadata(metadata_hash, m) == compute_metadata_hash(m) = metadata_hash

FindByMetadataHash(md, metadata_hash) ==
    {i \in 1..Len(md) : md[i].metadata_hash = metadata_hash}

FindByMetadataId(md, metadata_id) ==
    {i \in 1..Len(md) : md[i].metadata_id = metadata_id}

\* Mutant: the document's hash taken over the unsorted serialisation.
metadata_doc_unsorted_hash(metadata_id, m, t) ==
    [metadata_id |-> metadata_id,
     metadata_hash |-> Digest(json_dumps_unsorted(m)),
     metadata |-> m,
     created_at |-> Ms(t)]

\* metadata_doc of store_metadata
metadata_doc(metadata_id, m, t) ==
    [metadata_id |-> metadata_id,
     metadata_hash |-> compute_metadata_hash(m),
     metadata |-> m,
     created_at |-> Ms(t)]

\* insert_one raises DuplicateKeyError on the unique index of metadata_hash
\* (metadata_id is a fresh uuid4: the next unused number here); every
\* exception leaves store_metadata as a ValueError.
store_metadata(md, m, t) ==
    LET doc == metadata_doc(Len(md) + 1, m, t)
    IN  IF FindByMetadataHash(md, doc.metadata_hash) # {}
        THEN [ok |-> FALSE, docs |-> md]
        ELSE [ok |-> TRUE, docs |-> Append(md, doc),
              metadata_hash |-> doc.metadata_hash, metadata_id |-> doc.metadata_id]

\* Mutant: get_metadata_by_hash without its integrity check.
get_metadata_by_hash_unverified(md, metadata_hash) ==
    LET found == FindByMetadataHash(md, metadata_hash)
    IN  IF found = {} THEN [ok |-> FALSE, error |-> "Metadata not found"]
        ELSE [ok |-> TRUE, metadata |-> md[First(found)].metadata,
              metadata_hash |-> metadata_hash, verified |-> TRUE]

get_metadata_by_hash(md, metadata_hash) ==
    LET found == FindByMetadataHash(md, metadata_hash)
    IN  IF found = {} THEN [ok |-> FALSE, error |-> "Metadata not found"]
        ELSE IF ~verify_metadata(metadata_hash, md[First(found)].metadata)
        THEN [ok |-> FALSE, error |-> "Metadata integrity check failed"]
        ELSE [ok |-> TRUE, metadata |-> md[First(found)].metadata,
              metadata_hash |-> metadata_hash, verified |-> TRUE]

get_metadata_by_id(md, metadata_id) ==
    LET found == FindByMetadataId(md, metadata_id)
    IN  IF found = {} THEN [ok |-> FALSE, error |-> "Metadata not found"]
        ELSE LET doc == md[First(found)]
             IN  [ok |-> TRUE, metadata |-> doc.metadata,
                  metadata_hash |-> doc.metadata_hash,
                  verified |-> verify_metadata(doc.metadata_hash, doc.metadata)]

\* ------------------------------------------------------------ tracker
\* int(price_xrp * 1_000_000) for a whole number of XRP, where the float
\* product is exact; price_drops_of_cents has the prices in hundredths.
XrpToDrops(price_xrp) == price_xrp * DROPS_PER_XRP

FindByListingId(ls, listing_id) ==
    {i \in 1..Len(ls) : ls[i].listing_id = listing_id}

FindActiveByNft(ls, nft_id) ==
    {i \in 1..Len(ls) : ls[i].nft_id = nft_id /\ ls[i].status = "active"}

NewListing(listing_id, nft_id, seller_address, price_xrp, metadata_hash, t) ==
    [listing_id |-> listing_id,
     nft_id |-> nft_id,
     seller_address |-> seller_address,
     price_drops |-> XrpToDrops(price_xrp),
     metadata_hash |-> metadata_hash,
     status |-> "active",
     created_at |-> Ms(t),
     updated_at |-> Ms(t)]

\* Mutants of the existence check: the check left out, and a check that
\* looks at every listing of the NFT whatever its status.
create_listing_check_omitted(ls, nft_id) == TRUE

create_listing_check_any_status(ls, nft_id) ==
    {i \in 1..Len(ls) : ls[i].nft_id = nft_id} = {}

create_listing_check(ls, nft_id) == FindActiveByNft(ls, nft_id) = {}

\* Mutant of the insert: an insert that refuses a second active listing, as a
\* unique partial index on (nft_id, status = active) would.
create_listing_insert_unique(ls, nft_id, seller_address, price_xrp, metadata_hash, t) ==
    IF FindActiveByNft(ls, nft_id) # {} THEN ls
    ELSE Append(ls, NewListing(Len(ls) + 1, nft_id, seller_address,
                               price_xrp, metadata_hash, t))

create_listing_insert(ls, nft_id, seller_address, price_xrp, metadata_hash, t) ==
    Append(ls, NewListing(Len(ls) + 1, nft_id, seller_address,
                          price_xrp, metadata_hash, t))

create_listing(ls, nft_id, seller_address, price_xrp, metadata_hash, t) ==
    IF create_listing_check(ls, nft_id)
    THEN [ok |-> TRUE,
          listings |-> create_listing_insert(ls, nft_id, seller_address,
                                             price_xrp, metadata_hash, t)]
    ELSE [ok |-> FALSE, listings |-> ls]

\* The placeholder attached when the metadata lookup raises ValueError.
MetadataNotFound == <<<<"error", "Metadata not found">>>>

\* listing["metadata"] = ... inside the try/except of the two listing reads
attach_metadata(md, listing) ==
    LET r == get_metadata_by_hash(md, listing.metadata_hash)
    IN  Merge(listing, [metadata |-> IF r.ok THEN r.metadata ELSE MetadataNotFound])

\* Mutant: a listing whose metadata lookup fails is left out of the result.
get_active_listings_skip_missing(ls, md) ==
    LET found == SelectSeq(ls, LAMBDA l :
                     l.status = "active" /\ get_metadata_by_hash(md, l.metadata_hash).ok)
    IN  [i \in 1..Len(found) |-> attach_metadata(md, found[i])]

get_active_listings(ls, md) ==
    LET found == SelectSeq(ls, LAMBDA l : l.status = "active")
    IN  [i \in 1..Len(found) |-> attach_metadata(md, found[i])]

\* The metadata looked up by hash is attached to the returned copy only (a
\* failed lookup is replaced by a placeholder), so it decides nothing here.
get_listing(ls, listing_id) ==
    LET found == FindByListingId(ls, listing_id)
    IN  IF found = {} THEN [ok |-> FALSE]
        ELSE [ok |-> TRUE, listing |-> ls[First(found)]]

\* Mutant: additional_data dropped instead of merged.
UpdateData_status_only(status, additional_data, t) ==
    [status |-> status, updated_at |-> Ms(t)]

\* update_data of update_listing_status: status and updated_at, then
\* update_data.update(additional_data) when additional_data is truthy.
UpdateData(status, additional_data, t) ==
    LET base == [status |-> status, updated_at |-> Ms(t)]
    IN  IF Truthy(additional_data) THEN Merge(base, additional_data.val) ELSE base

\* Mutant: the document replaced by update_data instead of $set.
update_listing_status_replace(ls, listing_id, status, additional_data, t) ==
    LET found == FindByListingId(ls, listing_id)
    IN  IF found = {} THEN [ok |-> FALSE, listings |-> ls]
        ELSE IF Truthy(additional_data) /\ additional_data.kind # "dict"
        THEN [ok |-> FALSE, listings |-> ls]
        ELSE [ok |-> TRUE,
              listings |-> [ls EXCEPT ![First(found)] =
                              Merge([listing_id |-> listing_id],
                                    UpdateData(status, additional_data, t))]]

update_listing_status(ls, listing_id, status, additional_data, t) ==
    LET found == FindByListingId(ls, listing_id)
    IN  IF found = {} THEN [ok |-> FALSE, listings |-> ls]
        ELSE IF Truthy(additional_data) /\ additional_data.kind # "dict"
        THEN [ok |-> FALSE, listings |-> ls]
        ELSE
          LET i == First(found)
              update_data == UpdateData(status, additional_data, t)
              doc == Merge(ls[i], update_data)
              modified_count == IF doc = ls[i] THEN 0 ELSE 1
          IN  IF modified_count = 0
              THEN [ok |-> FALSE, listings |-> ls]
              ELSE [ok |-> TRUE, listings |-> [ls EXCEPT ![i] = doc]]

\* The signature of update_listing_status; a call naming any other keyword
\* raises TypeError before the body runs.
UpdateListingStatusParams == {"listing_id", "status", "additional_data"}

update_listing_status_kw(ls, listing_id, status, kwargs, t) ==
    IF ~(DOMAIN kwargs \subseteq UpdateListingStatusParams)
    THEN [raised |-> "TypeError", ok |-> FALSE, listings |-> ls]
    ELSE LET additional_data == IF "additional_data" \in DOMAIN kwargs
                                THEN kwargs["additional_data"] ELSE NoData
             r == update_listing_status(ls, listing_id, status, additional_data, t)
         IN  [raised |-> IF r.ok THEN "no" ELSE "ValueError",
              ok |-> r.ok, listings |-> r.listings]

InvalidReason == [reason |-> "NFT no longer owned by seller"]

\* The ledger when the service starts: every NFT is minted and held by someone.
InitialOwner == [n \in NFTs |-> IF n = "n1" THEN "rA" ELSE "rB"]

NoCalc == [fn |-> "none"]

\* Empty collections and tables, no request answered yet.
InitBackend ==
    /\ marketplace_listings = <<>>
    /\ nft_owner = InitialOwner
    /\ ledger_moves = {}
    /\ submitted = <<>>
    /\ now = 0
    /\ resp = NoResponse
    /\ calls = [p \in Procs |-> IdleCall]
    /\ nft_metadata = <<>>
    /\ wallets = <<>>
    /\ tokens = <<>>
    /\ transactions = <<>>
    /\ xrpl_txs = <<>>
    /\ nfts = <<>>

\* The terminal client on a machine with no wallet saved, after on_mount.
InitStores ==
    /\ InitBackend
    /\ self_wallet_data = NoWallet
    /\ current_wallet_file = NoFile
    /\ wallet_files = {}
    /\ balance_info = Blank
    /\ workers = [w \in WorkerIds |-> IdleWorker]

Init == InitStores /\ calc = NoCalc

Advance == now < MaxTime /\ now' = now + 1

Reply(route, code, body, nft_id, listing_id) ==
    resp' = Response(route, code, body, nft_id, listing_id)

\* Mutant: the status check of the buy routes left out.
listing_is_active_unchecked(listing) == TRUE

\* listing['status'] != 'active' in the two buy routes
listing_is_active(listing) == listing.status = "active"

\* Mutant: the cancel route without its seller check.
seller_matches_unchecked(listing, seller_address) == TRUE

\* listing['seller_address'] != data['seller_address'] in the cancel route
seller_matches(listing, seller_address) == listing.seller_address = seller_address

\* Mutant: validate-purchase without its look at the ledger.
buyer_is_owner_unchecked(owner, buyer_address, nft_id) == TRUE

\* verify_nft_ownership(data['buyer_address'], listing['nft_id']) in
\* validate-purchase
buyer_is_owner(owner, buyer_address, nft_id) ==
    verify_nft_ownership(owner, buyer_address, nft_id)

\* Mutant: the list route without its look at the ledger.
seller_is_owner_unchecked(owner, seller_address, nft_id) == TRUE

\* verify_nft_ownership(data['seller_address'], data['nft_id']) in the list
\* route
seller_is_owner(owner, seller_address, nft_id) ==
    verify_nft_ownership(owner, seller_address, nft_id)

\* --------------------------------------------------------- the routes
\* POST /api/marketplace/list
list_nft(nft_id, seller_address, price_xrp, metadata_hash) ==
    /\ Advance
    /\ UNCHANGED off_market
    /\ UNCHANGED <<nft_owner, ledger_moves, submitted, calls>>
    /\ IF nft_id = NoVal \/ seller_address = NoVal \/ price_xrp = 0
          \/ metadata_hash = NoVal
       THEN /\ Reply("list", 400, "required", nft_id, NoId)
            /\ UNCHANGED marketplace_listings
       ELSE IF ~seller_is_owner(nft_owner, seller_address, nft_id)
       THEN /\ Reply("list", 403, "Seller does not own this NFT", nft_id, NoId)
            /\ UNCHANGED marketplace_listings
       ELSE LET r == create_listing(marketplace_listings, nft_id, seller_address,
                                    price_xrp, metadata_hash, now')
            IN  IF r.ok
                THEN /\ Len(marketplace_listings) < MaxListings
                     /\ marketplace_listings' = r.listings
                     /\ Reply("list", 200, "NFT listed successfully", nft_id,
                              Len(r.listings))
                ELSE /\ UNCHANGED marketplace_listings
                     /\ Reply("list", 400, "already listed", nft_id, NoId)

\* The branch both buy routes take when the seller no longer owns the NFT:
\* update_listing_status(listing_id, "invalid", reason=...).
MarkInvalid(route, listing, listing_id) ==
    LET u == update_listing_status_kw(marketplace_listings, listing_id, "invalid",
                                      InvalidReason, now')
    IN  IF u.raised = "TypeError"
        THEN /\ UNCHANGED marketplace_listings
             /\ Reply(route, 500, "TypeError", listing.nft_id, listing_id)
        ELSE IF u.raised = "ValueError"
        THEN /\ marketplace_listings' = u.listings
             /\ Reply(route, 400, "ValueError", listing.nft_id, listing_id)
        ELSE /\ marketplace_listings' = u.listings
             /\ Reply(route, 400, "NFT is no longer owned by the seller",
                      listing.nft_id, listing_id)

\* POST /api/marketplace/buy/template/<listing_id>
get_buy_template(listing_id, buyer_address) ==
    /\ Advance
    /\ UNCHANGED off_market
    /\ UNCHANGED <<nft_owner, ledger_moves, submitted, calls>>
    /\ LET got == get_listing(marketplace_listings, listing_id)
       IN  IF buyer_address = NoVal
           THEN /\ Reply("buy_template", 400, "required", NoVal, listing_id)
                /\ UNCHANGED marketplace_listings
           ELSE IF ~got.ok
           THEN /\ Reply("buy_template", 400, "not found", NoVal, listing_id)
                /\ UNCHANGED marketplace_listings
           ELSE IF ~listing_is_active(got.listing)
           THEN /\ Reply("buy_template", 400, "Listing is not active",
                         got.listing.nft_id, listing_id)
                /\ UNCHANGED marketplace_listings
           ELSE IF ~verify_nft_ownership(nft_owner, got.listing.seller_address,
                                         got.listing.nft_id)
           THEN MarkInvalid("buy_template", got.listing, listing_id)
           ELSE /\ Reply("buy_template", 200, "templates",
                         got.listing.nft_id, listing_id)
                /\ UNCHANGED marketplace_listings

\* POST /api/marketplace/buy/submit/<listing_id>
submit_buy_transaction(listing_id, buyer_address, signed_payment, signed_nft_offer, payment_ok, offer_ok) ==
    /\ Advance
    /\ UNCHANGED off_market
    /\ UNCHANGED <<nft_owner, ledger_moves, calls>>
    /\ LET got == get_listing(marketplace_listings, listing_id)
       IN  IF signed_payment = NoVal \/ signed_nft_offer = NoVal
              \/ buyer_address = NoVal
           THEN /\ Reply("buy_submit", 400, "required", NoVal, listing_id)
                /\ UNCHANGED <<marketplace_listings, submitted>>
           ELSE IF ~got.ok
           THEN /\ Reply("buy_submit", 400, "not found", NoVal, listing_id)
                /\ UNCHANGED <<marketplace_listings, submitted>>
           ELSE IF ~listing_is_active(got.listing)
           THEN /\ Reply("buy_submit", 400, "Listing is not active",
                         got.listing.nft_id, listing_id)
                /\ UNCHANGED <<marketplace_listings, submitted>>
           ELSE IF ~verify_nft_ownership(nft_owner, got.listing.seller_address,
                                         got.listing.nft_id)
           THEN /\ MarkInvalid("buy_submit", got.listing, listing_id)
                /\ UNCHANGED submitted
           ELSE LET paid == submit_signed_transaction(submitted, "payment",
                               buyer_address, got.listing.seller_address, payment_ok)
                    offered == submit_signed_transaction(paid, "nft_offer",
                               got.listing.seller_address, buyer_address, offer_ok)
                    u == update_listing_status(marketplace_listings, listing_id,
                               "completed", StrData(buyer_address), now')
                IN  /\ submitted' = offered
                    /\ marketplace_listings' = u.listings
                    /\ IF u.ok
                       THEN Reply("buy_submit", 200, "Purchase completed successfully",
                                  got.listing.nft_id, listing_id)
                       ELSE Reply("buy_submit", 400, "ValueError",
                                  got.listing.nft_id, listing_id)

\* POST /api/marketplace/listing/<listing_id>/validate-purchase
validate_purchase(listing_id, buyer_address, transaction_hash) ==
    /\ Advance
    /\ UNCHANGED off_market
    /\ UNCHANGED <<nft_owner, ledger_moves, submitted, calls>>
    /\ LET got == get_listing(marketplace_listings, listing_id)
       IN  IF buyer_address = NoVal \/ transaction_hash = NoVal
           THEN /\ Reply("validate_purchase", 400, "Missing required fields",
                         NoVal, listing_id)
                /\ UNCHANGED marketplace_listings
           ELSE IF ~got.ok
           THEN /\ Reply("validate_purchase", 400, "not found", NoVal, listing_id)
                /\ UNCHANGED marketplace_listings
           ELSE IF ~buyer_is_owner(nft_owner, buyer_address, got.listing.nft_id)
           THEN /\ Reply("validate_purchase", 202, "pending",
                         got.listing.nft_id, listing_id)
                /\ UNCHANGED marketplace_listings
           ELSE LET u == update_listing_status(marketplace_listings, listing_id, "sold",
                            DictData([buyer_address |-> buyer_address,
                                      transaction_hash |-> transaction_hash,
                                      sold_at |-> now']), now')
                IN  /\ marketplace_listings' = u.listings
                    /\ IF u.ok
                       THEN Reply("validate_purchase", 200, "success",
                                  got.listing.nft_id, listing_id)
                       ELSE Reply("validate_purchase", 400, "ValueError",
                                  got.listing.nft_id, listing_id)

\* POST /api/marketplace/listing/<listing_id>/cancel
cancel_listing(listing_id, seller_address) ==
    /\ Advance
    /\ UNCHANGED off_market
    /\ UNCHANGED <<nft_owner, ledger_moves, submitted, calls>>
    /\ LET got == get_listing(marketplace_listings, listing_id)
       IN  IF seller_address = NoVal
           THEN /\ Reply("cancel", 400, "Seller address is required", NoVal, listing_id)
                /\ UNCHANGED marketplace_listings
           ELSE IF ~got.ok
           THEN /\ Reply("cancel", 400, "not found", NoVal, listing_id)
                /\ UNCHANGED marketplace_listings
           ELSE IF ~seller_matches(got.listing, seller_address)
           THEN /\ Reply("cancel", 403, "Unauthorized to cancel this listing",
                         got.listing.nft_id, listing_id)
                /\ UNCHANGED marketplace_listings
           ELSE LET u == update_listing_status(marketplace_listings, listing_id,
                            "cancelled", DictData([cancelled_at |-> now']), now')
                IN  /\ marketplace_listings' = u.listings
                    /\ IF u.ok
                       THEN Reply("cancel", 200, "success",
                                  got.listing.nft_id, listing_id)
                       ELSE Reply("cancel", 400, "ValueError",
                                  got.listing.nft_id, listing_id)

\* GET /api/marketplace/listing/<listing_id>
get_listing_by_id(listing_id) ==
    /\ Advance
    /\ UNCHANGED off_market
    /\ UNCHANGED <<marketplace_listings, nft_owner, ledger_moves, submitted, calls>>
    /\ LET got == get_listing(marketplace_listings, listing_id)
       IN  IF ~got.ok
           THEN Reply("get_listing", 404, "not found", NoVal, listing_id)
           ELSE Reply("get_listing", 200, "listing", got.listing.nft_id, listing_id)

\* GET /api/marketplace/listing/<listing_id>/prepare-buy
prepare_buy_info(listing_id) ==
    /\ Advance
    /\ UNCHANGED off_market
    /\ UNCHANGED <<marketplace_listings, nft_owner, ledger_moves, submitted, calls>>
    /\ LET got == get_listing(marketplace_listings, listing_id)
       IN  IF ~got.ok
           THEN Reply("prepare_buy", 404, "not found", NoVal, listing_id)
           ELSE Reply("prepare_buy", 200, "buy_info", got.listing.nft_id, listing_id)

\* An NFT changes hands on the ledger, outside the marketplace.
LedgerTransfer(nft_id, destination) ==
    /\ nft_owner[nft_id] # destination
    /\ Advance
    /\ UNCHANGED off_market
    /\ nft_owner' = [nft_owner EXCEPT ![nft_id] = destination]
    /\ ledger_moves' = ledger_moves \cup {<<nft_id, nft_owner[nft_id], destination>>}
    /\ resp' = NoResponse
    /\ UNCHANGED <<marketplace_listings, submitted, calls>>

\* The request bodies the clients send: every field present, or one of the
\* required fields missing (NoVal).
ListInputs ==
    {<<n, s, x, m>> : n \in NFTs, s \in Accounts, x \in PricesXrp, m \in MetaHashes}
    \cup {<<NoVal, "rA", 1, "m1">>, <<"n1", NoVal, 1, "m1">>,
          <<"n1", "rA", 0, "m1">>, <<"n1", "rA", 1, NoVal>>}

SubmitInputs ==
    {<<b, sp, so>> : b \in Accounts, sp \in Blobs, so \in Blobs}
    \cup {<<NoVal, "blob", "blob">>, <<"rB", NoVal, "blob">>, <<"rB", "blob", NoVal>>}

ValidateInputs ==
    {<<b, h>> : b \in Accounts, h \in TxHashes}
    \cup {<<NoVal, "h1">>, <<"rB", NoVal>>}

Next ==
    \/ \E in \in ListInputs : list_nft(in[1], in[2], in[3], in[4])
    \/ \E id \in ListingIds, b \in Accounts \cup {NoVal} : get_buy_template(id, b)
    \/ \E id \in ListingIds, in \in SubmitInputs, pok \in BOOLEAN, ook \in BOOLEAN :
          submit_buy_transaction(id, in[1], in[2], in[3], pok, ook)
    \/ \E id \in ListingIds, in \in ValidateInputs :
          validate_purchase(id, in[1], in[2])
    \/ \E id \in ListingIds, s \in Accounts \cup {NoVal} : cancel_listing(id, s)
    \/ \E n \in NFTs, d \in Accounts : LedgerTransfer(n, d)

Spec == Init /\ [][Next]_vars

\* ------------------------------------------- interleaved list requests
\* create_listing is a find_one (lines 198-203) followed by an insert_one
\* (line 216) with nothing holding the collection in between: two requests
\* served by different workers interleave at that point.
list_nft_check(p, nft_id, seller_address, price_xrp, metadata_hash) ==
    /\ calls[p].pc = "idle"
    /\ Advance
    /\ UNCHANGED off_market
    /\ UNCHANGED <<marketplace_listings, nft_owner, ledger_moves, submitted>>
    /\ IF nft_id = NoVal \/ seller_address = NoVal \/ price_xrp = 0
          \/ metadata_hash = NoVal
       THEN /\ Reply("list", 400, "required", nft_id, NoId)
            /\ UNCHANGED calls
       ELSE IF ~seller_is_owner(nft_owner, seller_address, nft_id)
       THEN /\ Reply("list", 403, "Seller does not own this NFT", nft_id, NoId)
            /\ UNCHANGED calls
       ELSE IF ~create_listing_check(marketplace_listings, nft_id)
       THEN /\ Reply("list", 400, "already listed", nft_id, NoId)
            /\ UNCHANGED calls
       ELSE /\ resp' = NoResponse
            /\ calls' = [calls EXCEPT ![p] =
                           [pc |-> "insert", nft_id |-> nft_id,
                            seller_address |-> seller_address,
                            price_xrp |-> price_xrp,
                            metadata_hash |-> metadata_hash]]

list_nft_insert(p) ==
    /\ calls[p].pc = "insert"
    /\ Advance
    /\ UNCHANGED off_market
    /\ Len(marketplace_listings) < MaxListings
    /\ marketplace_listings' =
         create_listing_insert(marketplace_listings, calls[p].nft_id,
                               calls[p].seller_address, calls[p].price_xrp,
                               calls[p].metadata_hash, now')
    /\ Reply("list", 200, "NFT listed successfully", calls[p].nft_id,
             Len(marketplace_listings'))
    /\ calls' = [calls EXCEPT ![p] = IdleCall]
    /\ UNCHANGED <<nft_owner, ledger_moves, submitted>>

NextRace ==
    \/ \E p \in Procs, in \in ListInputs :
          list_nft_check(p, in[1], in[2], in[3], in[4])
    \/ \E p \in Procs : list_nft_insert(p)
    \/ \E id \in ListingIds, s \in Accounts \cup {NoVal} : cancel_listing(id, s)
    \/ \E n \in NFTs, d \in Accounts : LedgerTransfer(n, d)

SpecRace == Init /\ [][NextRace]_vars

\* --------------------------------------------- buy/submit, step by step
\* submit_buy_transaction reads the ledger's owner (line 149) and then hands
\* the buyer's payment to the ledger (lines 155-159) in two round trips, with
\* nothing holding the NFT in between: the ledger moves on its own.
BuyCall(listing_id, listing, buyer_address) ==
    Merge(IdleCall, [pc |-> "pay", listing_id |-> listing_id,
                     nft_id |-> listing.nft_id,
                     seller_address |-> listing.seller_address,
                     buyer_address |-> buyer_address])

\* Mutant: the owner read again when the payment is handed over.
submit_payment_rechecked(log, owner, call, payment_ok) ==
    IF verify_nft_ownership(owner, call.seller_address, call.nft_id)
    THEN submit_signed_transaction(log, "payment", call.buyer_address,
                                   call.seller_address, payment_ok)
    ELSE log

\* payment_result = submit_signed_transaction(data['signed_payment'], ...)
submit_payment(log, owner, call, payment_ok) ==
    submit_signed_transaction(log, "payment", call.buyer_address,
                              call.seller_address, payment_ok)

\* The route up to the ownership check.
submit_buy_check(p, listing_id, buyer_address, signed_payment, signed_nft_offer) ==
    /\ calls[p].pc = "idle"
    /\ Advance
    /\ UNCHANGED off_market
    /\ UNCHANGED <<nft_owner, ledger_moves, submitted>>
    /\ LET got == get_listing(marketplace_listings, listing_id)
       IN  IF signed_payment = NoVal \/ signed_nft_offer = NoVal
              \/ buyer_address = NoVal
           THEN /\ Reply("buy_submit", 400, "required", NoVal, listing_id)
                /\ UNCHANGED <<marketplace_listings, calls>>
           ELSE IF ~got.ok
           THEN /\ Reply("buy_submit", 400, "not found", NoVal, listing_id)
                /\ UNCHANGED <<marketplace_listings, calls>>
           ELSE IF ~listing_is_active(got.listing)
           THEN /\ Reply("buy_submit", 400, "Listing is not active",
                         got.listing.nft_id, listing_id)
                /\ UNCHANGED <<marketplace_listings, calls>>
           ELSE IF ~verify_nft_ownership(nft_owner, got.listing.seller_address,
                                         got.listing.nft_id)
           THEN /\ MarkInvalid("buy_submit", got.listing, listing_id)
                /\ UNCHANGED calls
           ELSE /\ resp' = NoResponse
                /\ calls' = [calls EXCEPT ![p] =
                               BuyCall(listing_id, got.listing, buyer_address)]
                /\ UNCHANGED marketplace_listings

\* The rest of the route: the two submissions and the status update.
submit_buy_pay(p, payment_ok, offer_ok) ==
    /\ calls[p].pc = "pay"
    /\ Advance
    /\ UNCHANGED off_market
    /\ UNCHANGED <<nft_owner, ledger_moves>>
    /\ LET call == calls[p]
           paid == submit_payment(submitted, nft_owner, call, payment_ok)
           offered == submit_signed_transaction(paid, "nft_offer",
                          call.seller_address, call.buyer_address, offer_ok)
           u == update_listing_status(marketplace_listings, call.listing_id,
                          "completed", StrData(call.buyer_address), now')
       IN  /\ submitted' = offered
           /\ marketplace_listings' = u.listings
           /\ IF u.ok
              THEN Reply("buy_submit", 200, "Purchase completed successfully",
                         call.nft_id, call.listing_id)
              ELSE Reply("buy_submit", 400, "ValueError", call.nft_id, call.listing_id)
    /\ calls' = [calls EXCEPT ![p] = IdleCall]

NextBuyGap ==
    \/ \E in \in ListInputs : list_nft(in[1], in[2], in[3], in[4])
    \/ \E p \in Procs, id \in ListingIds, in \in SubmitInputs :
          submit_buy_check(p, id, in[1], in[2], in[3])
    \/ \E p \in Procs, pok \in BOOLEAN, ook \in BOOLEAN : submit_buy_pay(p, pok, ook)
    \/ \E n \in NFTs, d \in Accounts : LedgerTransfer(n, d)

SpecBuyGap == Init /\ [][NextBuyGap]_vars

\* ------------------------------------------------ direct tracker calls
EmptyDict == [k \in {} |-> NoVal]

\* additional_data of a direct call: nothing, or a dict (empty, of sale or
\* cancellation fields, or naming "status" itself).
ExtraInputs(t) ==
    {NoData, DictData(EmptyDict), DictData([buyer_address |-> "rB"]),
     DictData([cancelled_at |-> t]), DictData([status |-> "active"])}

SvcCreateListing(nft_id, seller_address, price_xrp, metadata_hash) ==
    /\ Advance
    /\ UNCHANGED off_market
    /\ UNCHANGED <<nft_owner, ledger_moves, submitted, calls>>
    /\ LET r == create_listing(marketplace_listings, nft_id, seller_address,
                               price_xrp, metadata_hash, now')
       IN  /\ r.ok => Len(marketplace_listings) < MaxListings
           /\ marketplace_listings' = r.listings
           /\ Reply("create_listing", 0, IF r.ok THEN "ok" ELSE "ValueError",
                    nft_id, IF r.ok THEN Len(r.listings) ELSE NoId)

SvcUpdateListingStatus(listing_id, status, additional_data) ==
    /\ Advance
    /\ UNCHANGED off_market
    /\ UNCHANGED <<nft_owner, ledger_moves, submitted, calls>>
    /\ LET u == update_listing_status(marketplace_listings, listing_id, status,
                                      additional_data, now')
       IN  /\ marketplace_listings' = u.listings
           /\ resp' = [Response("update_listing_status", 0,
                                IF u.ok THEN "ok" ELSE "ValueError", NoVal, listing_id)
                       EXCEPT !.status = status, !.data = additional_data]

NextService ==
    \/ \E n \in NFTs, x \in PricesXrp, m \in MetaHashes :
          SvcCreateListing(n, InitialOwner[n], x, m)
    \/ \E id \in ListingIds, st \in Statuses, ad \in ExtraInputs(now + 1) :
          SvcUpdateListingStatus(id, st, ad)

SpecService == Init /\ [][NextService]_vars

\* ------------------------------------------ every route that takes an id
NextById ==
    \/ \E in \in ListInputs : list_nft(in[1], in[2], in[3], in[4])
    \/ \E id \in ListingIds : get_listing_by_id(id)
    \/ \E id \in ListingIds : prepare_buy_info(id)
    \/ \E id \in ListingIds, b \in Accounts \cup {NoVal} : get_buy_template(id, b)
    \/ \E id \in ListingIds, in \in SubmitInputs, pok \in BOOLEAN, ook \in BOOLEAN :
          submit_buy_transaction(id, in[1], in[2], in[3], pok, ook)
    \/ \E id \in ListingIds, in \in ValidateInputs :
          validate_purchase(id, in[1], in[2])
    \/ \E id \in ListingIds, s \in Accounts \cup {NoVal} : cancel_listing(id, s)

SpecById == Init /\ [][NextById]_vars

\* ------------------------------------------------- the metadata hash
\* compute_metadata_hash and verify_metadata applied to two metadata objects.
InitHash ==
    /\ InitStores
    /\ calc \in {[fn |-> "compute_metadata_hash", m1 |-> m1, m2 |-> m2] :
                    m1 \in MetadataInputs, m2 \in MetadataInputs}

ComputeHashes ==
    /\ calc.fn = "compute_metadata_hash"
    /\ calc' = [fn |-> "hashed", m1 |-> calc.m1, m2 |-> calc.m2,
                h1 |-> compute_metadata_hash(calc.m1),
                h2 |-> compute_metadata_hash(calc.m2),
                verified |-> verify_metadata(compute_metadata_hash(calc.m1), calc.m1)]
    /\ UNCHANGED <<nfts, client_vars, marketplace_listings, nft_owner, ledger_moves, submitted, now,
                   resp, calls, nft_metadata, registry_vars>>

NextHash == ComputeHashes

SpecHash == InitHash /\ [][NextHash]_vars

\* ------------------------------------------------ the metadata store
MaxDocs == 2

\* The metadata objects stored: the dicts whose values are all "a" (one of
\* them with its two keys inserted in unsorted order).
StoreInputs == {m \in MetadataInputs : \A i \in 1..Len(m) : m[i][2] = "a"}

HashInputs == {compute_metadata_hash(m) : m \in StoreInputs}

\* The result of a metadata call, with its argument.
MetaReply(route, arg, result) ==
    Merge(Response(route, 0, IF result.ok THEN "ok" ELSE "ValueError", NoVal, NoId),
          [arg |-> arg, result |-> result])

StoreMetadata(m) ==
    LET r == store_metadata(nft_metadata, m, now)
    IN  /\ r.ok => Len(nft_metadata) < MaxDocs
        /\ nft_metadata' = r.docs
        /\ resp' = MetaReply("store_metadata", m,
                             IF r.ok THEN [ok |-> TRUE, metadata_hash |-> r.metadata_hash,
                                           metadata_id |-> r.metadata_id]
                             ELSE [ok |-> FALSE])
        /\ UNCHANGED <<nfts, client_vars, marketplace_listings, nft_owner, ledger_moves, submitted, now,
                       calls, calc, registry_vars>>

GetMetadataByHash(metadata_hash) ==
    /\ resp' = MetaReply("get_metadata_by_hash", metadata_hash,
                         get_metadata_by_hash(nft_metadata, metadata_hash))
    /\ UNCHANGED <<nfts, client_vars, marketplace_listings, nft_owner, ledger_moves, submitted, now,
                   calls, calc, nft_metadata, registry_vars>>

GetMetadataById(metadata_id) ==
    /\ resp' = MetaReply("get_metadata_by_id", metadata_id,
                         get_metadata_by_id(nft_metadata, metadata_id))
    /\ UNCHANGED <<nfts, client_vars, marketplace_listings, nft_owner, ledger_moves, submitted, now,
                   calls, calc, nft_metadata, registry_vars>>

\* A stored payload is rewritten by someone with access to the database; the
\* stored hash stays.
TamperMetadata(i, m) ==
    /\ i \in 1..Len(nft_metadata)
    /\ nft_metadata[i].metadata # m
    /\ nft_metadata' = [nft_metadata EXCEPT ![i].metadata = m]
    /\ resp' = NoResponse
    /\ UNCHANGED <<nfts, client_vars, marketplace_listings, nft_owner, ledger_moves, submitted, now,
                   calls, calc, registry_vars>>

NextMetadata ==
    \/ \E m \in StoreInputs : StoreMetadata(m)
    \/ \E h \in HashInputs : GetMetadataByHash(h)
    \/ \E id \in 1..(MaxDocs + 1) : GetMetadataById(id)
    \/ \E i \in 1..MaxDocs, m \in StoreInputs : TamperMetadata(i, m)

SpecMetadata == Init /\ [][NextMetadata]_vars

\* ------------------------------------------- listings with metadata
\* The metadata objects behind the listings, and their hashes.
CatalogueInputs == {m \in StoreInputs : Len(m) = 1}

CatalogueHashes == {compute_metadata_hash(m) : m \in CatalogueInputs}

\* get_active_listings called directly; it reads no clock.
GetActiveListings ==
    /\ resp' = MetaReply("get_active_listings", NoVal,
                         [ok |-> TRUE,
                          listings |-> get_active_listings(marketplace_listings,
                                                           nft_metadata)])
    /\ UNCHANGED <<nfts, client_vars, marketplace_listings, nft_owner, ledger_moves, submitted, now,
                   calls, calc, nft_metadata, registry_vars>>

NextCatalogue ==
    \/ \E m \in CatalogueInputs : StoreMetadata(m)
    \/ \E i \in 1..MaxDocs, m \in CatalogueInputs : TamperMetadata(i, m)
    \/ \E n \in NFTs, x \in PricesXrp, h \in CatalogueHashes :
          SvcCreateListing(n, InitialOwner[n], x, h)
    \/ \E id \in ListingIds, s \in Accounts : cancel_listing(id, s)
    \/ GetActiveListings

SpecCatalogue == Init /\ [][NextCatalogue]_vars

\* ------------------------------------------------ the price conversion
\* create_listing stores int(price_xrp * 1_000_000), price_xrp a Python float
\* (IEEE-754 binary64, MantissaBits significant bits, round to nearest even).
\* A price of k hundredths is held exactly: the double nearest to k/100 is
\* k/100 + err / (25 * 2^(MantissaBits - 1 - exp)) with 2^exp <= k/100 <
\* 2^(exp + 1), and the product with 1,000,000 is n + ulps * 2^(exp - 52)
\* with n the exact integer k * 10,000.
MaxCents == 1250
MantissaBits == 53
CentsPerXrp == 100

RECURSIVE Log2Floor(_)
Log2Floor(n) == IF n < 2 THEN 0 ELSE 1 + Log2Floor(n \div 2)

RECURSIVE ShiftUp(_, _)
ShiftUp(num, den) == IF 2 * num >= den THEN 1 ELSE 1 + ShiftUp(2 * num, den)

\* The e with 2^e <= num/den < 2^(e + 1)
Exponent(num, den) ==
    IF num >= den THEN Log2Floor(num \div den) ELSE 0 - ShiftUp(num, den)

RECURSIVE Pow2(_)
Pow2(e) == IF e = 0 THEN 1 ELSE 2 * Pow2(e - 1)

RECURSIVE Pow2Mod(_, _)
Pow2Mod(e, n) == IF e = 0 THEN 1 % n ELSE (2 * Pow2Mod(e - 1, n)) % n

\* num/den rounded to the nearest integer, ties to even (den > 0)
RoundHalfEven(num, den) ==
    LET q == num \div den
        r == num % den
    IN  IF 2 * r > den \/ (2 * r = den /\ q % 2 = 1) THEN q + 1 ELSE q

\* float("k/100"): the mantissa is k * 2^t / 100 = k * 2^(t - 2) / 25 rounded
\* to an integer, t = MantissaBits - 1 - exp; err is what the rounding adds
\* to the numerator k * 2^(t - 2).
float_from_cents(k) ==
    LET odd == CentsPerXrp \div 4
        exp == Exponent(k, CentsPerXrp)
        t == MantissaBits - 1 - exp
        r == ((k % odd) * Pow2Mod(t - 2, odd)) % odd
    IN  [cents |-> k, exp |-> exp,
         err |-> IF 2 * r < odd THEN 0 - r ELSE odd - r]

\* price_xrp * 1_000_000: the exact product is k * 10,000 +
\* err * 1,000,000 / (25 * 2^t); it is rounded to a multiple of the ulp
\* 2^(exp_n - MantissaBits + 1) of its binade, of which k * 10,000 is one.
float_times_drops(x) ==
    LET n == x.cents * (DROPS_PER_XRP \div CentsPerXrp)
        exp_n == Exponent(n, 1)
    IN  [n |-> n, exp |-> exp_n,
         ulps |-> RoundHalfEven(x.err * (DROPS_PER_XRP \div (CentsPerXrp \div 4)),
                                Pow2(exp_n - x.exp))]

\* int(): truncation towards zero of n + ulps * 2^(exp - 52), a positive
\* value less than one away from n.
int_of_float(p) == IF p.ulps < 0 THEN p.n - 1 ELSE p.n

\* price_drops of create_listing for a price of k hundredths of an XRP
price_drops_of_cents(k) == int_of_float(float_times_drops(float_from_cents(k)))

InitPrice ==
    /\ InitStores
    /\ calc \in {[fn |-> "price_xrp", cents |-> k] : k \in 1..MaxCents}

ConvertPrice ==
    /\ calc.fn = "price_xrp"
    /\ calc' = [fn |-> "price_drops", cents |-> calc.cents,
                price_drops |-> price_drops_of_cents(calc.cents)]
    /\ UNCHANGED <<nfts, client_vars, marketplace_listings, nft_owner, ledger_moves, submitted, now,
                   resp, calls, nft_metadata, registry_vars>>

NextPrice == ConvertPrice

SpecPrice == InitPrice /\ [][NextPrice]_vars

\* ------------------------------------------------- the token registry
\* backend/routes/token_routes.py over the tables of backend/models.py.  A
\* row is a record of the columns the routes write (created_at, last_synced
\* and token_metadata are left out); the primary key of a table is given at
\* flush: the next number.  NoId stands for None in an id column.
\*
\* token_routes.py imports generate_wallet and create_token(wallet_data,
\* name, supply, metadata) from services; xrpl_service.py has no
\* generate_wallet and token_service.create_token takes (wallet_data,
\* asset_details, token_details, additional_details), so the service layer
\* the routes were written for is not in the source tree.  CreateTokenForRoute
\* stands for it, as the API description gives it, on top of issue_token,
\* which is in xrpl_service.py; the wallet generate_wallet returns is an input
\* of create_wallet_route.
MaxXrplTxs == 6

TES_SUCCESS == "tesSUCCESS"
LedgerResults == {TES_SUCCESS, "tecUNFUNDED"}

\* The engine results of the three submissions of one issuance.
Outcomes == [1..3 -> LedgerResults]

\* The hashes the ledger gives the submissions of one issuance: those of
\* transactions never seen before.
FreshHashes(log) == [i \in 1..3 |-> Len(log) + i]

\* What the ledger answers to the three submissions: result and hash.
Answers(results, hashes) ==
    [i \in 1..3 |-> [result |-> results[i], hash |-> hashes[i]]]

TokenNames == {"TestToken"}
Supplies == {1000}

\* issue_token reads metadata['asset_details'][...] and
\* metadata['token_details']['currency_code'] on its way: what matters of a
\* metadata argument is which of these are there.
MetadataShapes ==
    {"complete", "no_asset_type", "no_currency_code", "no_asset_description"}

\* submit_and_wait: the transaction is validated with an engine result and
\* identified by its hash.
submit_and_wait(log, tx_type, account, answer) ==
    Append(log, [tx_type |-> tx_type, account |-> account,
                 result |-> answer.result, hash |-> answer.hash])

LastHash(log) == log[Len(log)].hash

ErrorResponse(error, log) ==
    [success |-> FALSE, error |-> error, log |-> log]

\* Mutant: the result of the payment not looked at.
payment_accepted_unchecked(result) == TRUE

\* transaction_result != "tesSUCCESS" after the payment
payment_accepted(result) == result = TES_SUCCESS

\* issue_token: enable_rippling, then the trust line, then the payment; an
\* exception anywhere ends it with an ErrorResponse.
issue_token(log, address, currency_code, total_supply, shape, outcomes) ==
    LET l1 == submit_and_wait(log, "AccountSet", address, outcomes[1])
        l2 == submit_and_wait(l1, "TrustSet", address, outcomes[2])
        l3 == submit_and_wait(l2, "Payment", address, outcomes[3])
    IN  IF shape = "no_asset_type" THEN ErrorResponse("KeyError", log)
        ELSE IF outcomes[1].result # TES_SUCCESS
        THEN ErrorResponse("Failed to enable rippling", l1)
        ELSE IF shape = "no_currency_code" THEN ErrorResponse("KeyError", l1)
        ELSE IF outcomes[2].result # TES_SUCCESS
        THEN ErrorResponse("Failed to create trustline", l2)
        ELSE IF ~payment_accepted(outcomes[3].result)
        THEN ErrorResponse("Failed to issue token", l3)
        ELSE IF shape = "no_asset_description" THEN ErrorResponse("KeyError", l3)
        ELSE [success |-> TRUE, log |-> l3,
              currency_code |-> currency_code,
              issuer |-> address,
              total_supply |-> total_supply,
              enable_rippling_result |-> [hash |-> LastHash(l1)],
              trust_set_result |-> [hash |-> LastHash(l2)],
              payment_result |-> [hash |-> LastHash(l3)]]

\* The currency code of a token: the first three letters of its name.
CurrencyOf(token_name) == IF token_name = "TestToken" THEN "TES" ELSE "XXX"

\* create_token as the route calls it: no ledger call without the wallet's
\* secret, otherwise the three-step issuance.
CreateTokenForRoute(log, wallet_data, token_name, total_supply, outcomes) ==
    IF wallet_data.secret = NoVal
    THEN ErrorResponse("Missing wallet secret", log)
    ELSE issue_token(log, wallet_data.classic_address, CurrencyOf(token_name),
                     total_supply, "complete", outcomes)

\* Mutant: the filter on the address left out of the query.
FindWallet_unfiltered(ws, address) == 1..Len(ws)

FindWallet(ws, address) == {i \in 1..Len(ws) : ws[i].address = address}

TokenReply(route, code, body, address) ==
    Merge(Response(route, code, body, NoVal, NoId),
          [address |-> address, steps |-> <<>>, token_id |-> NoId,
           fields |-> "all", ledger_reads |-> <<>>])

\* POST /api/tokens/wallet/create; the address column is unique.
create_wallet_route(address) ==
    /\ IF FindWallet(wallets, address) # {}
       THEN /\ UNCHANGED wallets
            /\ resp' = TokenReply("create_wallet", 400, "IntegrityError", address)
       ELSE /\ wallets' = Append(wallets, [id |-> Len(wallets) + 1, address |-> address,
                                           seed |-> "seed",
                                           last_synced |-> Ms(now)])
            /\ resp' = TokenReply("create_wallet", 200, "success", address)
    /\ UNCHANGED <<nfts, client_vars, marketplace_listings, nft_owner, ledger_moves, submitted, now,
                   calls, calc, nft_metadata, tokens, transactions, xrpl_txs>>

\* GET /api/tokens/wallet/info/<address>: the two ledger reads come after the
\* lookup; one that fails raises, and the except rolls back.
get_wallet_info_route(address, ledger_up) ==
    /\ Advance
    /\ LET found == FindWallet(wallets, address)
           reply(code, body, reads) ==
               Merge(TokenReply("wallet_info", code, body, address),
                     [ledger_reads |-> reads])
       IN  IF found = {}
           THEN /\ resp' = reply(404, "Wallet not found", <<>>)
                /\ UNCHANGED wallets
           ELSE IF ~ledger_up
           THEN /\ resp' = reply(400, "Failed to get account info", <<"account_info">>)
                /\ UNCHANGED wallets
           ELSE /\ wallets' = [wallets EXCEPT ![First(found)].last_synced = Ms(now')]
                /\ resp' = reply(200, "success", <<"account_info", "account_lines">>)
    /\ UNCHANGED <<nfts, client_vars, marketplace_listings, nft_owner, ledger_moves, submitted,
                   calls, calc, nft_metadata, tokens, transactions, xrpl_txs>>

\* The bodies of POST /api/tokens/create: the fields the route reads, or a
\* body without one of them.
TokenRequests ==
    [fields : {"all"}, classic_address : Accounts, secret : {NoVal, "s"},
     name : TokenNames, supply : Supplies]
        \cup [fields : {"name_missing"}, classic_address : Accounts,
              secret : {"s"}, name : {NoVal}, supply : Supplies]
        \cup [fields : {"empty"}, classic_address : {NoVal},
              secret : {NoVal}, name : {NoVal}, supply : Supplies]

\* Token(...) before db.session.add: the primary key is not set yet.
NewToken(response, token_name, total_supply, wallet) ==
    [id |-> NoId,
     currency_code |-> response.currency_code,
     name |-> token_name,
     total_supply |-> total_supply,
     issuer_id |-> wallet.id,
     enable_rippling_tx |-> response.enable_rippling_result.hash,
     trust_set_tx |-> response.trust_set_result.hash,
     payment_tx |-> response.payment_result.hash]

\* Transaction(...): token_id is read off the token as it is at that line.
NewTransaction(tx_hash, tx_type, wallet, token) ==
    [id |-> NoId, tx_hash |-> tx_hash, tx_type |-> tx_type,
     wallet_id |-> wallet.id, token_id |-> token.id, status |-> "success"]

\* The list of three the route builds.
NewTransactions(response, wallet, token) ==
    <<NewTransaction(response.enable_rippling_result.hash, "enable_rippling",
                     wallet, token),
      NewTransaction(response.trust_set_result.hash, "trust_set", wallet, token),
      NewTransaction(response.payment_result.hash, "payment", wallet, token)>>

\* Mutant: a table without the unique constraint.
TxHashConflict_unconstrained(stored, new) == FALSE

\* The unique constraint on transactions.tx_hash, as the commit meets it.
TxHashConflict(stored, new) ==
    \/ \E i, j \in 1..Len(new) : i # j /\ new[i].tx_hash = new[j].tx_hash
    \/ \E i \in 1..Len(stored), j \in 1..Len(new) : stored[i].tx_hash = new[j].tx_hash

\* The flush of the commit numbers the new rows.
Flush(stored, new) ==
    stored \o [i \in 1..Len(new) |-> [new[i] EXCEPT !.id = Len(stored) + i]]

\* The ledger results of the submissions a request added to the log.
StepsSince(log, n) == [i \in 1..(Len(log) - n) |-> log[n + i].result]

\* POST /api/tokens/create
create_token_route(data, outcomes) ==
    /\ Len(xrpl_txs) + 3 <= MaxXrplTxs
    /\ LET found == FindWallet(wallets, data.classic_address)
           wallet == wallets[First(found)]
           response == CreateTokenForRoute(xrpl_txs, data, data.name,
                                           data.supply, outcomes)
           token == NewToken(response, data.name, data.supply, wallet)
           token_id == Len(tokens) + 1
           rows == NewTransactions(response, wallet, token)
           reply(code, body, log, id) ==
               Merge(TokenReply("create_token", code, body, data.classic_address),
                     [steps |-> StepsSince(log, Len(xrpl_txs)), token_id |-> id,
                      fields |-> data.fields])
       IN  IF data.fields # "all"
           THEN /\ resp' = reply(400, "KeyError", xrpl_txs, NoId)
                /\ UNCHANGED <<tokens, transactions, xrpl_txs>>
           ELSE IF found = {}
           THEN /\ resp' = reply(404, "Wallet not found", xrpl_txs, NoId)
                /\ UNCHANGED <<tokens, transactions, xrpl_txs>>
           ELSE IF ~response.success
           THEN /\ xrpl_txs' = response.log
                /\ resp' = reply(400, response.error, response.log, NoId)
                /\ UNCHANGED <<tokens, transactions>>
           ELSE IF TxHashConflict(transactions, rows)
           THEN /\ xrpl_txs' = response.log
                /\ resp' = reply(400, "IntegrityError", response.log, NoId)
                /\ UNCHANGED <<tokens, transactions>>
           ELSE /\ xrpl_txs' = response.log
                /\ tokens' = Flush(tokens, <<token>>)
                /\ transactions' = Flush(transactions, rows)
                /\ resp' = reply(200, "success", response.log, token_id)
    /\ UNCHANGED <<nfts, client_vars, marketplace_listings, nft_owner, ledger_moves, submitted, now,
                   calls, calc, nft_metadata, wallets>>

NextTokens ==
    \/ \E a \in Accounts : create_wallet_route(a)
    \/ \E a \in Accounts, ledger_up \in BOOLEAN : get_wallet_info_route(a, ledger_up)
    \/ \E data \in TokenRequests, results \in Outcomes :
           create_token_route(data, Answers(results, FreshHashes(xrpl_txs)))

SpecTokens == Init /\ [][NextTokens]_vars

\* ------------------------------------------- token_service.create_token
\* A total_supply as a caller may give it: an int, a string (its characters),
\* or None.
Digits == <<"0", "1">>

SupplyInputs ==
    {[kind |-> "int", int |-> 1000, str |-> <<>>],
     [kind |-> "str", int |-> 0, str |-> <<"1">>],
     [kind |-> "str", int |-> 0, str |-> <<"1", "0">>],
     [kind |-> "str", int |-> 0, str |-> <<"x">>],
     [kind |-> "str", int |-> 0, str |-> <<"1", "x">>],
     [kind |-> "str", int |-> 0, str |-> <<>>],
     [kind |-> "none", int |-> 0, str |-> <<>>]}

IsDigit(c) == \E d \in 1..Len(Digits) : Digits[d] = c

DigitValue(c) == (CHOOSE d \in 1..Len(Digits) : Digits[d] = c) - 1

RECURSIVE ParseDigits(_)
ParseDigits(str) ==
    IF str = <<>> THEN 0
    ELSE 10 * ParseDigits(SubSeq(str, 1, Len(str) - 1)) + DigitValue(str[Len(str)])

\* Mutant: int() that gives 0 for what it cannot read.
int_lenient(v) ==
    IF v.kind = "int" THEN [ok |-> TRUE, int |-> v.int, error |-> NoVal]
    ELSE IF v.kind = "str" /\ v.str # <<>> /\ \A i \in 1..Len(v.str) : IsDigit(v.str[i])
    THEN [ok |-> TRUE, int |-> ParseDigits(v.str), error |-> NoVal]
    ELSE [ok |-> TRUE, int |-> 0, error |-> NoVal]

\* int(token_details["total_supply"])
int(v) ==
    IF v.kind = "int" THEN [ok |-> TRUE, int |-> v.int, error |-> NoVal]
    ELSE IF v.kind = "none"
    THEN [ok |-> FALSE, int |-> 0, error |-> "int() argument must be a string or a number"]
    ELSE IF v.str # <<>> /\ \A i \in 1..Len(v.str) : IsDigit(v.str[i])
    THEN [ok |-> TRUE, int |-> ParseDigits(v.str), error |-> NoVal]
    ELSE [ok |-> FALSE, int |-> 0, error |-> "invalid literal for int()"]

\* The secrets of a wallet_data: none, a seed, a string derive_keypair
\* refuses.
Secrets == {NoVal, "s", "bad"}

\* asset_details and token_details, by the keys of theirs that are there.
AssetDetailsInputs ==
    {{"name", "type", "description"}, {"name", "description"}, {"name", "type"}}

TokenDetailsInputs ==
    [keys : {{"token_name", "currency_code", "total_supply"}}, total_supply : SupplyInputs]
        \cup [keys : {{"currency_code", "total_supply"}, {"token_name", "total_supply"},
                      {"token_name", "currency_code"}},
              total_supply : {[kind |-> "int", int |-> 1000, str |-> <<>>]}]

GoodAssetDetails == {"name", "type", "description"}

GoodTokenDetails ==
    [keys |-> {"token_name", "currency_code", "total_supply"},
     total_supply |-> [kind |-> "int", int |-> 1000, str |-> <<>>]]

\* The calls made: every argument good but one, or the secret missing and
\* the supply no number as well.
CreateTokenInputs ==
    [secret : {"s"}, asset_details : {GoodAssetDetails},
     token_details : TokenDetailsInputs]
        \cup [secret : Secrets, asset_details : {GoodAssetDetails},
              token_details : {GoodTokenDetails}]
        \cup [secret : {"s"}, asset_details : AssetDetailsInputs,
              token_details : {GoodTokenDetails}]
        \cup [secret : {NoVal}, asset_details : {GoodAssetDetails},
              token_details : {[GoodTokenDetails EXCEPT !.total_supply =
                                    [kind |-> "str", int |-> 0, str |-> <<"x">>]]}]

\* What issue_token meets in the metadata create_token builds.
ShapeOf(asset_details, token_details) ==
    IF "type" \notin asset_details THEN "no_asset_type"
    ELSE IF "currency_code" \notin token_details.keys THEN "no_currency_code"
    ELSE IF "description" \notin asset_details THEN "no_asset_description"
    ELSE "complete"

\* if not wallet_data.get("secret")
secret_missing(wallet_data) == wallet_data.secret = NoVal

create_token(log, wallet_data, asset_details, token_details, outcomes) ==
    LET supply == int(token_details.total_supply)
    IN  IF secret_missing(wallet_data)
        THEN ErrorResponse("Missing wallet secret", log)
        ELSE IF wallet_data.secret # "s"
        THEN ErrorResponse("derive_keypair", log)
        ELSE IF "token_name" \notin token_details.keys
        THEN ErrorResponse("KeyError", log)
        ELSE IF "total_supply" \notin token_details.keys
        THEN ErrorResponse("KeyError", log)
        ELSE IF ~supply.ok THEN ErrorResponse(supply.error, log)
        ELSE issue_token(log, wallet_data.classic_address, "TST", supply.int,
                         ShapeOf(asset_details, token_details), outcomes)

\* A call of create_token, as the tests of the service make it.
CreateToken(wallet_data, asset_details, token_details, outcomes) ==
    /\ Len(xrpl_txs) + 3 <= MaxXrplTxs
    /\ LET result == create_token(xrpl_txs, wallet_data, asset_details,
                                  token_details, outcomes)
       IN  /\ xrpl_txs' = result.log
           /\ resp' = Merge(TokenReply("create_token_service", 0,
                                       IF result.success THEN NoVal ELSE result.error,
                                       wallet_data.classic_address),
                            [success |-> result.success,
                             secret |-> wallet_data.secret,
                             asset_details |-> asset_details,
                             token_details |-> token_details,
                             steps |-> StepsSince(result.log, Len(xrpl_txs))])
    /\ UNCHANGED <<nfts, client_vars, marketplace_listings, nft_owner, ledger_moves, submitted, now,
                   calls, calc, nft_metadata, wallets, tokens, transactions>>

NextCreateToken ==
    \/ \E a \in Accounts : create_wallet_route(a)
    \/ \E data \in TokenRequests, results \in Outcomes :
           create_token_route(data, Answers(results, FreshHashes(xrpl_txs)))
    \/ \E call \in CreateTokenInputs, results \in Outcomes :
           CreateToken([classic_address |-> "rA", secret |-> call.secret],
                       call.asset_details, call.token_details,
                       Answers(results, FreshHashes(xrpl_txs)))

SpecCreateToken == Init /\ [][NextCreateToken]_vars

\* ------------------------------------------- hashes met a second time
\* The routes with a ledger client that may answer with a hash it has given
\* before, as the stub of tests/test_token_api.py does ('test_hash' for every
\* submission).
MaxHash == 3

LedgerHashes == [1..3 -> 1..MaxHash]

FundedRequests ==
    {data \in TokenRequests :
        data.fields = "all" /\ data.secret = "s" /\ data.classic_address = "rA"}

\* Every submission validated.
AllValidated == [i \in 1..3 |-> TES_SUCCESS]

NextTokenHashes ==
    \/ \E a \in Accounts : create_wallet_route(a)
    \/ \E data \in FundedRequests, hashes \in LedgerHashes :
           create_token_route(data, Answers(AllValidated, hashes))

SpecTokenHashes == Init /\ [][NextTokenHashes]_vars

\* --------------------------------------- /api/transaction/submit and db.nfts
\* The request body: 'response' holds what the signing app returned (txid,
\* account), 'uri' and 'metadata' are optional.  A missing field, None and
\* the empty string or dict all fail data.get(...) as a condition.
TxIds == {"t1", "t2"}
Uris == {"ipfs://u"}
NoMetadata == <<<<"None", "None">>>>

\* The metadata sent along: none, the empty dict, or a dict of one pair.
MintMetadata == {NoMetadata} \cup {m \in StoreInputs : Len(m) <= 1}

SubmitRequests ==
    [response : {TRUE}, txid : TxIds \cup {NoVal}, account : {"rA", NoVal},
     uri : Uris \cup {NoVal}, metadata : MintMetadata]
    \cup [response : {FALSE}, txid : {NoVal}, account : {NoVal},
          uri : Uris, metadata : {NoMetadata}]

\* What the ledger holds under a transaction hash.
LedgerAnswers == {"not_found", "NFTokenMint", "Payment"}

\* verify_xrpl_transaction(transaction_hash): success with the transaction
\* as the ledger holds it, or a failure with a message.
verify_xrpl_transaction(answer) ==
    IF answer = "not_found"
    THEN [success |-> FALSE, message |-> "Transaction not found"]
    ELSE [success |-> TRUE, transaction |-> [TransactionType |-> answer]]

NotVerified == [success |-> FALSE, message |-> "not asked"]

FindByTransactionHash(nf, transaction_hash) ==
    {i \in 1..Len(nf) : nf[i].transaction_hash = transaction_hash}

\* nft_data of track_nft_mint (nft_id is a fresh uuid4: the next unused
\* number here)
nft_data(nft_id, account, uri, transaction_hash, stored, t) ==
    [nft_id |-> nft_id,
     account |-> account,
     uri |-> uri,
     transaction_hash |-> transaction_hash,
     metadata |-> [platform_minted |-> TRUE, nft_id |-> nft_id,
                   metadata_id |-> stored.metadata_id,
                   metadata_hash |-> stored.metadata_hash],
     created_at |-> Ms(t),
     status |-> "minted"]

\* Mutant: db.nfts without its unique index on transaction_hash.
track_nft_mint_unindexed(nf, md, account, uri, transaction_hash, metadata, t) ==
    LET stored == store_metadata(md, metadata, t)
    IN  IF ~stored.ok THEN [ok |-> FALSE, nfts |-> nf, docs |-> md]
        ELSE [ok |-> TRUE, docs |-> stored.docs,
              nfts |-> Append(nf, nft_data(Len(nf) + 1, account, uri,
                                           transaction_hash, stored, t))]

\* store_metadata first, then insert_one into db.nfts, which raises
\* DuplicateKeyError on the unique index of transaction_hash; every exception
\* leaves as a ValueError.  The metadata document stored before a refused
\* insert stays.
track_nft_mint(nf, md, account, uri, transaction_hash, metadata, t) ==
    LET stored == store_metadata(md, metadata, t)
    IN  IF ~stored.ok THEN [ok |-> FALSE, nfts |-> nf, docs |-> md]
        ELSE IF FindByTransactionHash(nf, transaction_hash) # {}
        THEN [ok |-> FALSE, nfts |-> nf, docs |-> stored.docs]
        ELSE [ok |-> TRUE, docs |-> stored.docs,
              nfts |-> Append(nf, nft_data(Len(nf) + 1, account, uri,
                                           transaction_hash, stored, t))]

\* Mutant: every verified transaction with uri and metadata is tracked.
is_nft_mint_any_type(tx_result, data) ==
    /\ data.uri # NoVal
    /\ data.metadata \notin {NoMetadata, <<>>}

\* The condition of the route's "if this is an NFT mint, track it".
is_nft_mint(tx_result, data) ==
    /\ tx_result.transaction.TransactionType = "NFTokenMint"
    /\ data.uri # NoVal
    /\ data.metadata \notin {NoMetadata, <<>>}

SubmitReply(code, body, data, tx_result) ==
    Merge(Response("submit_transaction", code, body, NoVal, NoId),
          [request |-> data, tx_result |-> tx_result])

submit_transaction(data, answer) ==
    LET tx_result == verify_xrpl_transaction(answer)
        tracked == track_nft_mint(nfts, nft_metadata, data.account, data.uri,
                                  data.txid, data.metadata, now)
    IN  /\ IF ~data.response
           THEN /\ resp' = SubmitReply(400, "XUMM response is required", data, NotVerified)
                /\ UNCHANGED <<nfts, nft_metadata>>
           ELSE IF data.txid = NoVal
           THEN /\ resp' = SubmitReply(400, "Transaction ID not found in XUMM response",
                                       data, NotVerified)
                /\ UNCHANGED <<nfts, nft_metadata>>
           ELSE IF ~tx_result.success
           THEN /\ resp' = SubmitReply(400, tx_result.message, data, tx_result)
                /\ UNCHANGED <<nfts, nft_metadata>>
           ELSE IF ~is_nft_mint(tx_result, data)
           THEN /\ resp' = SubmitReply(200, "Transaction submitted successfully",
                                       data, tx_result)
                /\ UNCHANGED <<nfts, nft_metadata>>
           ELSE IF data.account = NoVal
           THEN /\ resp' = SubmitReply(500, "KeyError", data, tx_result)
                /\ UNCHANGED <<nfts, nft_metadata>>
           ELSE /\ Len(tracked.docs) <= MaxDocs
                /\ nfts' = tracked.nfts
                /\ nft_metadata' = tracked.docs
                /\ resp' = IF tracked.ok
                           THEN SubmitReply(200, "Transaction submitted successfully",
                                            data, tx_result)
                           ELSE SubmitReply(400, "Failed to track NFT in database",
                                            data, tx_result)
       /\ UNCHANGED <<marketplace_listings, nft_owner, ledger_moves, submitted, now,
                      calls, calc, registry_vars, client_vars>>

NextMint ==
    \/ \E data \in SubmitRequests, answer \in LedgerAnswers :
           submit_transaction(data, answer)
    \/ \E m \in MintMetadata \ {NoMetadata} : StoreMetadata(m)

SpecMint == Init /\ [][NextMint]_vars

\* ------------------------------------------------- the terminal client
\* NFTApp keeps the current wallet in memory (self.wallet_data), its address
\* in current_wallet.json and one file per wallet in the wallets directory.
\* Every @work(thread=True) method runs in a thread of its own; the steps of
\* a worker are its reads and writes of that shared state, and
\* call_from_thread hands a callback to the UI thread, which runs callbacks
\* one at a time.
SeedOf(address) == IF address = "rA" THEN "sA" ELSE "sB"

\* Wallet.from_seed(seed).classic_address; an invalid seed raises.
AddressOfSeed(seed) ==
    IF seed = "sA" THEN "rA" ELSE IF seed = "sB" THEN "rB" ELSE NoVal

Seeds == {"sA", "sB", "bad"}

\* wallet_data of save_wallet, which is also what json.load reads back from
\* the wallet's file.
WalletOf(address) == [classic_address |-> address, seed |-> SeedOf(address)]

\* "Balance" of account_data, in drops: a different amount for each account.
LedgerBalance(address) ==
    IF address = "rA" THEN 10 * DROPS_PER_XRP ELSE 20 * DROPS_PER_XRP

\* balance / 1_000_000, for a whole number of XRP
balance_xrp(balance) == balance \div DROPS_PER_XRP

\* A worker: the method it runs, where it is, and its locals.
Worker(kind, pc, address, balance) ==
    [kind |-> kind, pc |-> pc, address |-> address, balance |-> balance]

IdleSlots == {w \in WorkerIds : workers[w] = IdleWorker}

AllDone == IdleSlots = WorkerIds

At(w, kind, pc) ==
    /\ workers[w] # IdleWorker
    /\ workers[w].kind = kind
    /\ workers[w].pc = pc

\* A method called on the UI thread starts its worker in a free thread.
StartWorker(kind, address) ==
    /\ IdleSlots # {}
    /\ workers' = [workers EXCEPT ![First(IdleSlots)] = Worker(kind, "start", address, 0)]

backend_vars == <<marketplace_listings, nft_owner, ledger_moves, submitted, now, resp,
                  calls, nft_metadata, calc, registry_vars, nfts>>

\* WalletDisplay.update_info
update_info(w_data) == IF w_data = NoWallet THEN Blank ELSE Fetching

\* Mutant: update_ui of get_balance dropping a balance fetched for a wallet
\* that is no longer the current one.
update_balance_if_current(shown, w_data, address, balance) ==
    IF w_data # NoWallet /\ w_data.classic_address = address
    THEN Balance(balance) ELSE shown

\* update_ui / show_error of get_balance: WalletDisplay.update_balance
update_balance(shown, w_data, address, balance) == Balance(balance)

\* refresh_display as the update_ui callback of worker w runs it: update_info
\* of the wallet in memory at that moment, then get_balance() if there is
\* one.  The worker has nothing left to do after its callback, so its thread
\* is shown passing to the get_balance worker started here.
refresh_display(w) ==
    /\ balance_info' = update_info(self_wallet_data)
    /\ workers' = [workers EXCEPT ![w] =
                      IF self_wallet_data = NoWallet THEN IdleWorker
                      ELSE Worker("get_balance", "start", NoVal, 0)]

\* show_error callbacks write to #result-display only.
show_error(w) ==
    /\ workers[w] # IdleWorker
    /\ workers[w].pc = "show_error"
    /\ workers' = [workers EXCEPT ![w] = IdleWorker]
    /\ UNCHANGED <<self_wallet_data, current_wallet_file, wallet_files, balance_info>>
    /\ UNCHANGED backend_vars

\* update_ui callbacks of switch, remove, import and generate
update_ui(w) ==
    /\ workers[w] # IdleWorker
    /\ workers[w].kind # "get_balance"
    /\ workers[w].pc = "update_ui"
    /\ refresh_display(w)
    /\ UNCHANGED <<self_wallet_data, current_wallet_file, wallet_files>>
    /\ UNCHANGED backend_vars

\* -- get_balance
action_refresh ==
    /\ self_wallet_data # NoWallet
    /\ StartWorker("get_balance", NoVal)
    /\ UNCHANGED <<self_wallet_data, current_wallet_file, wallet_files, balance_info>>
    /\ UNCHANGED backend_vars

\* AccountInfo(account=self.wallet_data["classic_address"], ...): the worker
\* reads the wallet in memory when it runs, not when it was started; None
\* raises and leads to update_balance(0).
get_balance_read(w) ==
    /\ At(w, "get_balance", "start")
    /\ workers' = [workers EXCEPT ![w] =
                      IF self_wallet_data = NoWallet
                      THEN Worker("get_balance", "update_ui", NoVal, 0)
                      ELSE Worker("get_balance", "request",
                                  self_wallet_data.classic_address, 0)]
    /\ UNCHANGED <<self_wallet_data, current_wallet_file, wallet_files, balance_info>>
    /\ UNCHANGED backend_vars

\* client.request(request): the account's balance, or a failure shown as 0
get_balance_request(w, ok) ==
    /\ At(w, "get_balance", "request")
    /\ workers' = [workers EXCEPT ![w] =
                      Worker("get_balance", "update_ui", workers[w].address,
                             IF ok THEN balance_xrp(LedgerBalance(workers[w].address))
                             ELSE 0)]
    /\ UNCHANGED <<self_wallet_data, current_wallet_file, wallet_files, balance_info>>
    /\ UNCHANGED backend_vars

get_balance_update_ui(w) ==
    /\ At(w, "get_balance", "update_ui")
    /\ balance_info' = update_balance(balance_info, self_wallet_data,
                                      workers[w].address, workers[w].balance)
    /\ workers' = [workers EXCEPT ![w] = IdleWorker]
    /\ UNCHANGED <<self_wallet_data, current_wallet_file, wallet_files>>
    /\ UNCHANGED backend_vars

\* -- switch_wallet
\* The addresses a switch can be asked for: the wallets of the selection
\* screen, and one whose file is not there.
SwitchTargets == Accounts \cup {"rX"}

switch_wallet(address) ==
    /\ StartWorker("switch_wallet", address)
    /\ UNCHANGED <<self_wallet_data, current_wallet_file, wallet_files, balance_info>>
    /\ UNCHANGED backend_vars

switch_wallet_load(w) ==
    /\ At(w, "switch_wallet", "start")
    /\ IF workers[w].address \notin wallet_files
       THEN /\ workers' = [workers EXCEPT ![w].pc = "show_error"]
            /\ UNCHANGED self_wallet_data
       ELSE /\ self_wallet_data' = WalletOf(workers[w].address)
            /\ workers' = [workers EXCEPT ![w].pc = "save_current"]
    /\ UNCHANGED <<current_wallet_file, wallet_files, balance_info>>
    /\ UNCHANGED backend_vars

\* save_current_wallet(address), in switch_wallet and in import_wallet
save_current_wallet(w) ==
    /\ workers[w] # IdleWorker
    /\ workers[w].kind \in {"switch_wallet", "import_wallet"}
    /\ workers[w].pc = "save_current"
    /\ current_wallet_file' = workers[w].address
    /\ workers' = [workers EXCEPT ![w].pc = "update_ui"]
    /\ UNCHANGED <<self_wallet_data, wallet_files, balance_info>>
    /\ UNCHANGED backend_vars

\* -- remove_wallet
remove_wallet(address) ==
    /\ StartWorker("remove_wallet", address)
    /\ UNCHANGED <<self_wallet_data, current_wallet_file, wallet_files, balance_info>>
    /\ UNCHANGED backend_vars

\* The wallet's file must exist; removing the wallet in memory clears it.
remove_wallet_check(w) ==
    /\ At(w, "remove_wallet", "start")
    /\ IF workers[w].address \notin wallet_files
       THEN /\ workers' = [workers EXCEPT ![w].pc = "show_error"]
            /\ UNCHANGED self_wallet_data
       ELSE IF /\ self_wallet_data # NoWallet
               /\ self_wallet_data.classic_address = workers[w].address
       THEN /\ self_wallet_data' = NoWallet
            /\ workers' = [workers EXCEPT ![w].pc = "remove_current"]
       ELSE /\ workers' = [workers EXCEPT ![w].pc = "remove_file"]
            /\ UNCHANGED self_wallet_data
    /\ UNCHANGED <<current_wallet_file, wallet_files, balance_info>>
    /\ UNCHANGED backend_vars

\* if os.path.exists(CURRENT_WALLET_FILE): os.remove(CURRENT_WALLET_FILE)
remove_wallet_current(w) ==
    /\ At(w, "remove_wallet", "remove_current")
    /\ current_wallet_file' = NoFile
    /\ workers' = [workers EXCEPT ![w].pc = "remove_file"]
    /\ UNCHANGED <<self_wallet_data, wallet_files, balance_info>>
    /\ UNCHANGED backend_vars

\* os.remove(wallet_file), which raises when the file is gone by now
remove_wallet_file(w) ==
    /\ At(w, "remove_wallet", "remove_file")
    /\ IF workers[w].address \notin wallet_files
       THEN /\ workers' = [workers EXCEPT ![w].pc = "show_error"]
            /\ UNCHANGED wallet_files
       ELSE /\ wallet_files' = wallet_files \ {workers[w].address}
            /\ workers' = [workers EXCEPT ![w].pc = "update_ui"]
    /\ UNCHANGED <<self_wallet_data, current_wallet_file, balance_info>>
    /\ UNCHANGED backend_vars

\* -- save_wallet, as generate_wallet and import_wallet call it
\* The wallet's file is written; the wallet becomes the current one, in
\* memory and in current_wallet.json, only if no wallet is in memory.
save_wallet(w_data, current, files, address) ==
    [files |-> files \cup {address},
     current |-> IF w_data = NoWallet THEN address ELSE current,
     wallet_data |-> IF w_data = NoWallet THEN WalletOf(address) ELSE w_data,
     returned |-> WalletOf(address)]

SaveWallet(w) ==
    /\ workers[w] # IdleWorker
    /\ workers[w].kind \in {"generate_wallet", "import_wallet"}
    /\ workers[w].pc = "save_wallet"
    /\ LET saved == save_wallet(self_wallet_data, current_wallet_file, wallet_files,
                                workers[w].address)
       IN  /\ wallet_files' = saved.files
           /\ current_wallet_file' = saved.current
           /\ self_wallet_data' = saved.wallet_data
    /\ workers' = [workers EXCEPT ![w].pc = "assign"]
    /\ UNCHANGED balance_info
    /\ UNCHANGED backend_vars

\* self.wallet_data = self.save_wallet(wallet): the caller puts the saved
\* wallet in memory whatever save_wallet decided.
AssignSaved(w) ==
    /\ workers[w] # IdleWorker
    /\ workers[w].kind \in {"generate_wallet", "import_wallet"}
    /\ workers[w].pc = "assign"
    /\ self_wallet_data' = WalletOf(workers[w].address)
    /\ workers' = [workers EXCEPT ![w].pc =
                      IF workers[w].kind = "import_wallet" THEN "save_current"
                      ELSE "update_ui"]
    /\ UNCHANGED <<current_wallet_file, wallet_files, balance_info>>
    /\ UNCHANGED backend_vars

\* -- generate_wallet
action_generate ==
    /\ StartWorker("generate_wallet", NoVal)
    /\ UNCHANGED <<self_wallet_data, current_wallet_file, wallet_files, balance_info>>
    /\ UNCHANGED backend_vars

\* Wallet.create() makes a new address; the faucet funds it or refuses.
generate_wallet_create(w, address, funded) ==
    /\ At(w, "generate_wallet", "start")
    /\ address \notin wallet_files
    /\ \A v \in WorkerIds : workers[v] # IdleWorker => workers[v].address # address
    /\ workers' = [workers EXCEPT ![w] =
                      Worker("generate_wallet",
                             IF funded THEN "save_wallet" ELSE "show_error", address, 0)]
    /\ UNCHANGED <<self_wallet_data, current_wallet_file, wallet_files, balance_info>>
    /\ UNCHANGED backend_vars

\* -- import_wallet
import_wallet(seed) ==
    /\ StartWorker("import_wallet", seed)
    /\ UNCHANGED <<self_wallet_data, current_wallet_file, wallet_files, balance_info>>
    /\ UNCHANGED backend_vars

\* Wallet.from_seed(seed) of the seed the worker was started with
import_wallet_from_seed(w) ==
    /\ At(w, "import_wallet", "start")
    /\ workers' = [workers EXCEPT ![w] =
                      IF AddressOfSeed(workers[w].address) = NoVal
                      THEN Worker("import_wallet", "show_error", NoVal, 0)
                      ELSE Worker("import_wallet", "save_wallet",
                                  AddressOfSeed(workers[w].address), 0)]
    /\ UNCHANGED <<self_wallet_data, current_wallet_file, wallet_files, balance_info>>
    /\ UNCHANGED backend_vars

\* A step of a running worker that is not particular to one method.
WorkerStep(w) ==
    \/ show_error(w)
    \/ update_ui(w)
    \/ get_balance_read(w)
    \/ \E ok \in BOOLEAN : get_balance_request(w, ok)
    \/ get_balance_update_ui(w)

NextClient ==
    \/ action_refresh
    \/ action_generate
    \/ \E a \in SwitchTargets : switch_wallet(a)
    \/ \E a \in Accounts : remove_wallet(a)
    \/ \E seed \in Seeds : import_wallet(seed)
    \/ \E w \in WorkerIds :
           \/ WorkerStep(w)
           \/ switch_wallet_load(w)
           \/ save_current_wallet(w)
           \/ remove_wallet_check(w)
           \/ remove_wallet_current(w)
           \/ remove_wallet_file(w)
           \/ SaveWallet(w)
           \/ AssignSaved(w)
           \/ \E a \in Accounts, funded \in BOOLEAN : generate_wallet_create(w, a, funded)
           \/ import_wallet_from_seed(w)

SpecClient == Init /\ [][NextClient]_vars

\* Switching between two wallets saved earlier: the application starts with
\* both wallet files on disk and "rA" selected, __init__ has loaded it and
\* on_mount has refreshed the display, which started the first get_balance.
InitSwitch ==
    /\ InitBackend
    /\ calc = NoCalc
    /\ wallet_files = Accounts
    /\ current_wallet_file = "rA"
    /\ self_wallet_data = WalletOf("rA")
    /\ balance_info = Fetching
    /\ workers = [w \in WorkerIds |->
                    IF w = 1 THEN Worker("get_balance", "start", NoVal, 0)
                    ELSE IdleWorker]

NextSwitch ==
    \/ action_refresh
    \/ \E a \in SwitchTargets : switch_wallet(a)
    \/ \E w \in WorkerIds :
           \/ WorkerStep(w)
           \/ switch_wallet_load(w)
           \/ save_current_wallet(w)

SpecSwitch == InitSwitch /\ [][NextSwitch]_vars

\* ================================================================ claims
ListingsOfNft(ls, nft_id) == {i \in 1..Len(ls) : ls[i].nft_id = nft_id}

C2_CreateIffNoActive ==
    [][resp'.route = "create_listing" =>
         IF FindActiveByNft(marketplace_listings, resp'.nft_id) = {}
         THEN /\ resp'.body = "ok"
              /\ Len(marketplace_listings') = Len(marketplace_listings) + 1
              /\ SubSeq(marketplace_listings', 1, Len(marketplace_listings))
                   = marketplace_listings
              /\ marketplace_listings'[Len(marketplace_listings')].status = "active"
              /\ marketplace_listings'[Len(marketplace_listings')].nft_id = resp'.nft_id
         ELSE /\ resp'.body = "ValueError"
              /\ marketplace_listings' = marketplace_listings]_vars

\* A create_listing that has just succeeded for an NFT whose earlier listing
\* is cancelled, completed or sold.
C2_Witness ==
    /\ resp.route = "create_listing" /\ resp.body = "ok"
    /\ \E i \in ListingsOfNft(marketplace_listings, resp.nft_id) :
          /\ marketplace_listings[i].status \in {"cancelled", "completed", "sold"}
          /\ i < resp.listing_id

\* C3: when list requests interleave, a call that has passed the existence
\* check inserts its 'active' listing whatever was inserted since the check,
\* so two 'active' listings of one NFT are reachable.
C3_InsertAfterStaleCheck ==
    [][\A p \in Procs :
         (calls[p].pc = "insert" /\ calls'[p].pc = "idle") =>
           /\ Len(marketplace_listings') = Len(marketplace_listings) + 1
           /\ marketplace_listings'[Len(marketplace_listings')].status = "active"
           /\ marketplace_listings'[Len(marketplace_listings')].nft_id = calls[p].nft_id]_vars

\* Two 'active' listings of the same NFT.
C3_Witness ==
    \E n \in NFTs : Cardinality(FindActiveByNft(marketplace_listings, n)) >= 2

ById(ls, listing_id) == ls[First(FindByListingId(ls, listing_id))]

Exists(ls, listing_id) == FindByListingId(ls, listing_id) # {}

TerminalStatuses == {"completed", "cancelled", "sold", "invalid"}

\* C4: completed, cancelled, sold and invalid are terminal: once a listing
\* has one of them, no marketplace request changes its status again.
C4_TerminalStatusesStay ==
    [][\A i \in 1..Len(marketplace_listings) :
         marketplace_listings[i].status \in TerminalStatuses =>
           marketplace_listings'[i].status = marketplace_listings[i].status]_vars

\* The buy request handled in this step got as far as the ownership check of
\* an active listing, and the ledger says the seller does not hold the NFT.
StaleBuy(route) ==
    /\ resp'.route = route
    /\ resp'.body # "required"
    /\ Exists(marketplace_listings, resp'.listing_id)
    /\ LET l == ById(marketplace_listings, resp'.listing_id)
       IN  /\ l.status = "active"
           /\ ~verify_nft_ownership(nft_owner, l.seller_address, l.nft_id)

\* C6: a buy/template or buy/submit request for an active listing whose
\* seller no longer owns the NFT leaves the listing 'invalid', with a reason
\* recorded, and is rejected.
C6_StaleListingInvalidated ==
    [][\A route \in {"buy_template", "buy_submit"} :
         StaleBuy(route) =>
           LET l == ById(marketplace_listings', resp'.listing_id)
           IN  /\ l.status = "invalid"
               /\ "reason" \in DOMAIN l
               /\ resp'.code # 200]_vars

\* C7: buy/template returns no templates and buy/submit submits no ledger
\* transaction when the listing is not 'active' or its seller does not own
\* the NFT; the response is then an error, not 200.
C7_NoPurchaseUnlessActiveAndOwned ==
    [][\A i \in 1..Len(marketplace_listings) :
         LET l == marketplace_listings[i]
         IN  ( /\ resp'.route \in {"buy_template", "buy_submit"}
               /\ resp'.listing_id = l.listing_id
               /\ \/ l.status # "active"
                  \/ ~verify_nft_ownership(nft_owner, l.seller_address, l.nft_id) )
             => /\ resp'.code # 200
                /\ resp'.body # "templates"
                /\ submitted' = submitted]_vars

\* A buy/submit with all its fields, just refused for a listing that is not
\* active, with nothing handed to the ledger.
C7_Witness ==
    /\ resp.route = "buy_submit" /\ resp.body = "Listing is not active"
    /\ resp.code = 400
    /\ ById(marketplace_listings, resp.listing_id).status \in {"sold", "cancelled"}
    /\ submitted = <<>>

\* C8: a listing is 'sold' or 'completed' only if a ledger transaction that
\* moved its NFT from its seller to the recorded buyer has succeeded.
C8_SoldOnlyAfterSettlement ==
    \A i \in 1..Len(marketplace_listings) :
        LET l == marketplace_listings[i]
        IN  l.status \in {"sold", "completed"} =>
              /\ "buyer_address" \in DOMAIN l
              /\ <<l.nft_id, l.seller_address, l.buyer_address>> \in ledger_moves

\* The buy/submit handled in this step was for an active listing whose seller
\* holds the NFT, and both submissions were applied by the ledger.
SettledBuy ==
    /\ resp'.route = "buy_submit"
    /\ Exists(marketplace_listings, resp'.listing_id)
    /\ LET l == ById(marketplace_listings, resp'.listing_id)
       IN  /\ l.status = "active"
           /\ verify_nft_ownership(nft_owner, l.seller_address, l.nft_id)
    /\ Len(submitted') = Len(submitted) + 2
    /\ submitted'[Len(submitted) + 1].success
    /\ submitted'[Len(submitted) + 2].success

\* C9: a buy/submit for an active listing whose seller owns the NFT, with both
\* submissions successful, ends with the listing 'completed', the buyer
\* recorded, the response 200, and the listing gone from get_active_listings.
C9_BuySubmitCompletes ==
    [][SettledBuy =>
         LET l == ById(marketplace_listings', resp'.listing_id)
         IN  /\ l.status = "completed"
             /\ "buyer_address" \in DOMAIN l
             /\ l.buyer_address = submitted'[Len(submitted')].destination
             /\ resp'.code = 200
             /\ \A j \in 1..Len(get_active_listings(marketplace_listings', nft_metadata')) :
                  get_active_listings(marketplace_listings', nft_metadata')[j].listing_id
                    # resp'.listing_id]_vars

\* C10: a cancel request whose seller_address differs from the stored one is
\* answered 403 and changes no listing; the cancel route moves a listing to
\* 'cancelled' only when the supplied seller_address equals the stored one.
C10_CancelOnlyBySeller ==
    [][\A a \in Accounts :
         LET id == resp'.listing_id
         IN
         (resp'.route = "cancel" /\ Exists(marketplace_listings, id)
            /\ cancel_listing(id, a)) =>
           LET l == ById(marketplace_listings, id)
           IN  /\ a # l.seller_address =>
                    /\ resp'.code = 403
                    /\ marketplace_listings' = marketplace_listings
               /\ marketplace_listings' # marketplace_listings =>
                    /\ a = l.seller_address
                    /\ ById(marketplace_listings', id).status = "cancelled"]_vars

\* A cancel by another account than the seller has just been refused, the
\* listing still active.
C10_Witness ==
    /\ resp.route = "cancel" /\ resp.code = 403
    /\ ById(marketplace_listings, resp.listing_id).status = "active"

\* The fields of a dict additional_data are all present in listing l.
HasExtra(l, additional_data) ==
    additional_data.kind = "dict" =>
        \A k \in DOMAIN additional_data.val :
            k \in DOMAIN l /\ l[k] = additional_data.val[k]

\* The status a successful update leaves: a "status" key of additional_data
\* is written after, and so over, the status argument.
WrittenStatus(status, additional_data) ==
    IF additional_data.kind = "dict" /\ "status" \in DOMAIN additional_data.val
    THEN additional_data.val["status"] ELSE status

ByIdRoutes ==
    {"get_listing", "prepare_buy", "buy_template", "buy_submit",
     "validate_purchase", "cancel"}

FieldMissingBodies ==
    {"required", "Missing required fields", "Seller address is required"}

\* C11: every route that addresses a listing by id, called with otherwise
\* valid input for a listing id that does not exist, responds 404 and changes
\* no stored state.
C11_MissingListingIs404 ==
    [][( /\ resp'.route \in ByIdRoutes
         /\ resp'.body \notin FieldMissingBodies
         /\ ~Exists(marketplace_listings, resp'.listing_id) )
       => /\ resp'.code = 404
          /\ marketplace_listings' = marketplace_listings
          /\ submitted' = submitted]_vars

\* C12: a validate-purchase made while the ledger does not show
\* buyer_address as owner of the listing's NFT is answered 202 and leaves the
\* listing unchanged; one made once the ledger shows the buyer as owner is
\* answered 200 and sets the listing to 'sold' with buyer_address and
\* transaction_hash recorded.
C12_PendingUntilLedgerShowsBuyer ==
    [][\A b \in Accounts, h \in TxHashes :
         LET id == resp'.listing_id
         IN
         (resp'.route = "validate_purchase" /\ Exists(marketplace_listings, id)
            /\ validate_purchase(id, b, h)) =>
           LET l == ById(marketplace_listings, id)
               after == ById(marketplace_listings', id)
           IN  IF ~verify_nft_ownership(nft_owner, b, l.nft_id)
               THEN /\ resp'.code = 202
                    /\ marketplace_listings' = marketplace_listings
               ELSE /\ resp'.code = 200
                    /\ after.status = "sold"
                    /\ after.buyer_address = b
                    /\ after.transaction_hash = h
                    /\ after.listing_id = id /\ after.nft_id = l.nft_id]_vars

\* A listing whose NFT moved on the ledger from its seller to another account
\* after it was listed, just validated as sold to that account.
C12_Witness ==
    /\ resp.route = "validate_purchase" /\ resp.code = 200
    /\ LET l == ById(marketplace_listings, resp.listing_id)
       IN  /\ l.status = "sold"
           /\ l.buyer_address # l.seller_address
           /\ verify_nft_ownership(nft_owner, l.buyer_address, l.nft_id)
           /\ <<l.nft_id, l.seller_address, l.buyer_address>> \in ledger_moves

\* C13: POST /api/marketplace/list creates a listing only if the ledger
\* check made in that request reports that seller_address owns nft_id;
\* otherwise the response is 403 and no listing is inserted.
C13_ListOnlyByOwner ==
    [][\A s \in Accounts, x \in PricesXrp, m \in MetaHashes :
         LET n == resp'.nft_id
         IN
         (resp'.route = "list" /\ n \in NFTs /\ list_nft(n, s, x, m)) =>
           /\ ~verify_nft_ownership(nft_owner, s, n) =>
                /\ resp'.code = 403
                /\ marketplace_listings' = marketplace_listings
           /\ marketplace_listings' # marketplace_listings =>
                /\ verify_nft_ownership(nft_owner, s, n)
                /\ marketplace_listings'[Len(marketplace_listings')].seller_address = s
                /\ marketplace_listings'[Len(marketplace_listings')].nft_id = n]_vars

\* A list request just refused with 403 for an NFT that has no active listing
\* (so nothing but the ownership check stood in its way), with an earlier
\* listing by the true owner stored.
C13_Witness ==
    /\ resp.route = "list" /\ resp.code = 403
    /\ FindActiveByNft(marketplace_listings, resp.nft_id) = {}
    /\ ListingsOfNft(marketplace_listings, resp.nft_id) # {}

\* C18: compute_metadata_hash depends on the key/value content only: two
\* metadata objects with the same keys and values in different insertion
\* order have the same hash, and verify_metadata(compute_metadata_hash(m), m)
\* is true for every m.
C18_HashIgnoresKeyOrder ==
    calc.fn = "hashed" =>
        /\ SameDict(calc.m1, calc.m2) => calc.h1 = calc.h2
        /\ calc.verified
        /\ calc.h1 = compute_metadata_hash(calc.m1)

\* Two objects with the same two pairs inserted in opposite orders, hashed to
\* the same value.
C18_Witness ==
    /\ calc.fn = "hashed"
    /\ Len(calc.m1) = 2 /\ calc.m1 # calc.m2 /\ SameDict(calc.m1, calc.m2)
    /\ calc.h1 = calc.h2 /\ calc.verified

\* C16: store_metadata(m) followed, with no change made in between, by
\* get_metadata_by_hash of the returned hash or get_metadata_by_id of the
\* returned id yields m unchanged with verified = true.
C16_StoreThenGetRoundTrip ==
    [][(resp'.route = "store_metadata" /\ resp'.body = "ok") =>
         LET m == resp'.arg
             by_hash == get_metadata_by_hash(nft_metadata', resp'.result.metadata_hash)
             by_id == get_metadata_by_id(nft_metadata', resp'.result.metadata_id)
         IN  /\ by_hash.ok /\ by_hash.metadata = m /\ by_hash.verified
             /\ by_id.ok /\ by_id.metadata = m /\ by_id.verified
             /\ by_id.metadata_hash = resp'.result.metadata_hash]_vars

\* A second document just stored, its two keys given in unsorted order.
C16_Witness ==
    /\ resp.route = "store_metadata" /\ resp.body = "ok"
    /\ Len(nft_metadata) = 2 /\ resp.result.metadata_id = 2
    /\ Len(resp.arg) = 2 /\ json_dumps_unsorted(resp.arg) # json_dumps_sort_keys(resp.arg)
    /\ nft_metadata[2].metadata = resp.arg

\* The stored payload of document i no longer matches its stored hash.
Mismatch(md, i) == ~verify_metadata(md[i].metadata_hash, md[i].metadata)

\* C17: when a stored payload no longer matches its stored hash,
\* get_metadata_by_hash fails and returns no data, while get_metadata_by_id
\* still returns the stored payload, with verified = false.
C17_TamperedPayload ==
    [][\A i \in 1..Len(nft_metadata) :
         Mismatch(nft_metadata, i) =>
           /\ (resp'.route = "get_metadata_by_hash"
                 /\ resp'.arg = nft_metadata[i].metadata_hash)
              => /\ resp'.body = "ValueError"
                 /\ ~resp'.result.ok
                 /\ "metadata" \notin DOMAIN resp'.result
           /\ (resp'.route = "get_metadata_by_id"
                 /\ resp'.arg = nft_metadata[i].metadata_id)
              => /\ resp'.body = "ok"
                 /\ resp'.result.metadata = nft_metadata[i].metadata
                 /\ resp'.result.metadata_hash = nft_metadata[i].metadata_hash
                 /\ resp'.result.verified = FALSE]_vars

\* A lookup by hash has just failed on a document whose payload was changed,
\* and the lookup of the same document by id reports it unverified.
C17_Witness ==
    /\ resp.route = "get_metadata_by_hash" /\ resp.body = "ValueError"
    /\ \E i \in 1..Len(nft_metadata) :
          /\ nft_metadata[i].metadata_hash = resp.arg
          /\ Mismatch(nft_metadata, i)
          /\ get_metadata_by_id(nft_metadata, nft_metadata[i].metadata_id).verified = FALSE

\* The documents of md stored under metadata_hash whose payload still matches it.
IntactDocs(md, metadata_hash) ==
    {i \in FindByMetadataHash(md, metadata_hash) : ~Mismatch(md, i)}

\* C14: get_active_listings returns exactly the listings whose status is
\* 'active', each with a metadata field attached; a listing whose metadata is
\* missing or fails its integrity check is still returned, with the
\* placeholder error object, and the read does not fail.
C14_ActiveListingsWithMetadata ==
    [][resp'.route = "get_active_listings" =>
         LET out == resp'.result.listings
             ls == marketplace_listings
         IN  /\ resp'.body = "ok"
             /\ Len(out) = Cardinality({i \in 1..Len(ls) : ls[i].status = "active"})
             /\ \A i \in 1..Len(ls) :
                  ls[i].status = "active" <=>
                    \E j \in 1..Len(out) : out[j].listing_id = ls[i].listing_id
             /\ \A j \in 1..Len(out) :
                  /\ "metadata" \in DOMAIN out[j]
                  /\ out[j].price_drops = ById(ls, out[j].listing_id).price_drops
                  /\ LET intact == IntactDocs(nft_metadata, out[j].metadata_hash)
                     IN  IF intact = {}
                         THEN out[j].metadata = MetadataNotFound
                         ELSE \E d \in intact :
                                out[j].metadata = nft_metadata[d].metadata]_vars

\* A read that has just returned two listings, one with its stored metadata
\* and one with the placeholder, while a cancelled listing is left out.
C14_Witness ==
    /\ resp.route = "get_active_listings" /\ resp.body = "ok"
    /\ Len(resp.result.listings) = 2
    /\ \E j, k \in 1..2 :
          /\ resp.result.listings[j].metadata = MetadataNotFound
          /\ resp.result.listings[k].metadata \in CatalogueInputs
    /\ \E i \in 1..Len(marketplace_listings) :
          marketplace_listings[i].status = "cancelled"

\* C15: for every price with at most 2 decimal places, create_listing stores
\* price_drops equal to exactly price * 1,000,000, with no loss from the float
\* multiplication and the integer truncation.
C15_PriceDropsExact ==
    calc.fn = "price_drops" =>
        calc.price_drops * CentsPerXrp = calc.cents * DROPS_PER_XRP

\* A ledger step of the request just answered failed.
LedgerStepFailed(r) == \E i \in 1..Len(r.steps) : r.steps[i] # TES_SUCCESS

\* The validated submission of an account a hash names, if any.
Validated(log, hash, tx_type, account) ==
    \E i \in 1..Len(log) :
        /\ log[i].hash = hash
        /\ log[i].tx_type = tx_type
        /\ log[i].account = account
        /\ log[i].result = TES_SUCCESS

\* Every Token row rests on three successful ledger steps of its issuer.
TokenRowsBacked(ts, ws, log) ==
    \A i \in 1..Len(ts) :
        \E w \in 1..Len(ws) :
            /\ ws[w].id = ts[i].issuer_id
            /\ Validated(log, ts[i].enable_rippling_tx, "AccountSet", ws[w].address)
            /\ Validated(log, ts[i].trust_set_tx, "TrustSet", ws[w].address)
            /\ Validated(log, ts[i].payment_tx, "Payment", ws[w].address)

OfToken(rows, token_id) == {i \in 1..Len(rows) : rows[i].token_id = token_id}

UnknownWallet(ws, address) == \A i \in 1..Len(ws) : ws[i].address # address

NotAnInteger(v) ==
    \/ v.kind = "none"
    \/ v.kind = "str" /\ (v.str = <<>> \/ \E i \in 1..Len(v.str) : v.str[i] \notin {"0", "1"})

\* C22: create_token returns a failure result (success false, with an error
\* message) without submitting any ledger transaction when the wallet secret
\* is missing or when total_supply is not convertible to an integer; a
\* token-create request with missing required fields is answered 400 and
\* persists nothing.
C22_RejectedBeforeTheLedger ==
    [][/\ ( /\ resp'.route = "create_token_service"
            /\ \/ resp'.secret = NoVal
               \/ NotAnInteger(resp'.token_details.total_supply) )
          => /\ ~resp'.success
             /\ resp'.body # NoVal
             /\ xrpl_txs' = xrpl_txs
       /\ (resp'.route = "create_token" /\ resp'.fields # "all")
          => /\ resp'.code = 400
             /\ wallets' = wallets
             /\ tokens' = tokens
             /\ transactions' = transactions]_vars

\* A supply that is no number, given with a good secret and complete details.
C22_Witness ==
    /\ resp.route = "create_token_service"
    /\ resp.secret = "s"
    /\ resp.token_details.keys = {"token_name", "currency_code", "total_supply"}
    /\ resp.token_details.total_supply.str = <<"1", "x">>
    /\ ~resp.success
    /\ resp.body = "invalid literal for int()"
    /\ Len(xrpl_txs) = 3

\* C23: the ownership check before a purchase is a point-in-time check: a
\* buy/submit that has passed it hands the buyer's payment for the listing to
\* the ledger whoever holds the NFT by then, so a payment to a seller who no
\* longer holds the NFT is reachable.
C23_PaymentAfterStaleOwnershipCheck ==
    [][\A p \in Procs :
         (calls[p].pc = "pay" /\ calls'[p].pc = "idle") =>
           /\ Len(submitted') = Len(submitted) + 2
           /\ submitted'[Len(submitted) + 1].tx = "payment"
           /\ submitted'[Len(submitted) + 1].account = calls[p].buyer_address
           /\ submitted'[Len(submitted) + 1].destination = calls[p].seller_address]_vars

\* The payment of a buy/submit went to the seller after the ledger had moved
\* the NFT away from them.
C23_Witness ==
    /\ resp.route = "buy_submit"
    /\ resp.body \in {"Purchase completed successfully", "ValueError"}
    /\ Len(submitted) = 2
    /\ submitted[Len(submitted) - 1].tx = "payment"
    /\ \E i \in 1..Len(marketplace_listings) :
          /\ marketplace_listings[i].nft_id = resp.nft_id
          /\ marketplace_listings[i].listing_id = resp.listing_id
          /\ submitted[Len(submitted) - 1].destination = marketplace_listings[i].seller_address
          /\ nft_owner[resp.nft_id] # marketplace_listings[i].seller_address
          /\ \E d \in Accounts :
                <<resp.nft_id, marketplace_listings[i].seller_address, d>> \in ledger_moves

\* The ledger transactions of an issuance, in the order of their submission.
IssuanceSteps == <<"AccountSet", "TrustSet", "Payment">>

\* C24: issue_token submits its ledger transactions in the order
\* enable-rippling, trust-line, payment; each later step is submitted only
\* after the previous one returned tesSUCCESS, no further transaction is
\* submitted after the first failure, and the result has success = true if
\* and only if all three results are tesSUCCESS.
C24_IssuanceInOrder ==
    [][resp'.route = "create_token_service" =>
         LET n == Len(xrpl_txs)
             new == SubSeq(xrpl_txs', n + 1, Len(xrpl_txs'))
         IN  /\ SubSeq(xrpl_txs', 1, n) = xrpl_txs
             /\ Len(new) <= 3
             /\ \A i \in 1..Len(new) : new[i].tx_type = IssuanceSteps[i]
             /\ \A i \in 2..Len(new) : new[i - 1].result = TES_SUCCESS
             /\ resp'.success <=>
                  (Len(new) = 3 /\ \A i \in 1..3 : new[i].result = TES_SUCCESS)]_vars

\* No two rows of the table agree on the column.
UniqueTxHash(rows) ==
    \A i, j \in 1..Len(rows) : rows[i].tx_hash = rows[j].tx_hash => i = j

UniqueAddress(rows) ==
    \A i, j \in 1..Len(rows) : rows[i].address = rows[j].address => i = j

\* The hashes of the submissions a request made.
HashesSince(log, n) == [i \in 1..(Len(log) - n) |-> log[n + i].hash]

FixedFields == {"listing_id", "nft_id", "seller_address", "price_drops", "metadata_hash"}

LifeFields ==
    {"status", "created_at", "updated_at", "buyer_address", "transaction_hash",
     "sold_at", "cancelled_at"}

\* The keys on which two documents differ.
Changed(d, e) ==
    {k \in (DOMAIN d) \cup (DOMAIN e) :
        k \notin DOMAIN d \/ k \notin DOMAIN e \/ d[k] # e[k]}

StoredFor(md, rec) ==
    {i \in 1..Len(md) : md[i].metadata_id = rec.metadata.metadata_id}

\* C27: POST /api/transaction/submit adds an NFT record only when the ledger
\* verification of the txid succeeded, the verified transaction is an
\* NFTokenMint and both uri and metadata were supplied; the record then has
\* status 'minted' and its metadata is stored.  When the verification fails
\* the response is 400 and neither db.nfts nor db.nft_metadata changes.
C27_TrackedOnlyWhenVerifiedMint ==
    [][resp'.route = "submit_transaction" =>
         /\ nfts' # nfts =>
              /\ resp'.tx_result.success
              /\ resp'.tx_result.transaction.TransactionType = "NFTokenMint"
              /\ resp'.request.uri # NoVal
              /\ resp'.request.metadata \notin {NoMetadata, <<>>}
              /\ Len(nfts') = Len(nfts) + 1
              /\ SubSeq(nfts', 1, Len(nfts)) = nfts
              /\ LET rec == nfts'[Len(nfts')]
                 IN  /\ rec.status = "minted"
                     /\ rec.transaction_hash = resp'.request.txid
                     /\ rec.uri = resp'.request.uri
                     /\ \E i \in StoredFor(nft_metadata', rec) :
                            /\ nft_metadata'[i].metadata = resp'.request.metadata
                            /\ nft_metadata'[i].metadata_hash = rec.metadata.metadata_hash
         /\ ~resp'.tx_result.success =>
              /\ resp'.code = 400
              /\ nfts' = nfts
              /\ nft_metadata' = nft_metadata]_vars

\* A verified mint with uri and metadata, tracked next to an earlier one.
C27_Witness ==
    /\ resp.route = "submit_transaction"
    /\ resp.code = 200
    /\ resp.tx_result.success
    /\ resp.tx_result.transaction.TransactionType = "NFTokenMint"
    /\ Len(nfts) = 2
    /\ nfts[2].transaction_hash = resp.request.txid
    /\ nfts[2].status = "minted"
    /\ StoredFor(nft_metadata, nfts[2]) # {}

UniqueMetadataHash(md) ==
    \A i, j \in 1..Len(md) : md[i].metadata_hash = md[j].metadata_hash => i = j

UniqueTransactionHash(nf) ==
    \A i, j \in 1..Len(nf) : nf[i].transaction_hash = nf[j].transaction_hash => i = j

StoredContent(md, m) == {i \in 1..Len(md) : SameDict(md[i].metadata, m)}

\* A submit request that reaches track_nft_mint: verified, an NFTokenMint,
\* with uri, metadata and account.
ReachesTracking(r) ==
    /\ r.route = "submit_transaction"
    /\ r.tx_result.success
    /\ is_nft_mint(r.tx_result, r.request)
    /\ r.request.account # NoVal

\* C28: no two stored metadata documents share a content hash and no two
\* NFT records share a transaction hash.  store_metadata of content equal to
\* a stored document fails and stores nothing; a verified mint whose metadata
\* equals stored metadata, or whose txid is already tracked, is answered with
\* an error and adds no NFT record.
C28_DuplicatesAreRefused ==
    [][/\ UniqueMetadataHash(nft_metadata')
       /\ UniqueTransactionHash(nfts')
       /\ (resp'.route = "store_metadata"
           /\ StoredContent(nft_metadata, resp'.arg) # {}) =>
              /\ resp'.body = "ValueError"
              /\ nft_metadata' = nft_metadata
       /\ (ReachesTracking(resp')
           /\ \/ StoredContent(nft_metadata, resp'.request.metadata) # {}
              \/ FindByTransactionHash(nfts, resp'.request.txid) # {}) =>
              /\ resp'.code = 400
              /\ resp'.body = "Failed to track NFT in database"
              /\ nfts' = nfts]_vars

\* A verified mint under a txid not tracked before, refused because its
\* metadata equals the metadata of the NFT tracked earlier.
C28_Witness ==
    /\ ReachesTracking(resp)
    /\ resp.code = 400
    /\ Len(nfts) = 1
    /\ nfts[1].transaction_hash # resp.request.txid
    /\ \E i \in StoredFor(nft_metadata, nfts[1]) :
           SameDict(nft_metadata[i].metadata, resp.request.metadata)

\* C29: in the terminal client, once every worker has finished, a balance
\* shown in the wallet display is the balance of the wallet that is current
\* then, however the get_balance and switch_wallet workers interleaved (a
\* failed fetch, shown as 0, aside).
C29_ShownBalanceIsOfCurrentWallet ==
    (/\ AllDone
     /\ self_wallet_data # NoWallet
     /\ balance_info.shown = "balance"
     /\ balance_info.xrp # 0) =>
        balance_info.xrp = balance_xrp(LedgerBalance(self_wallet_data.classic_address))

\* C30: in the terminal client, whenever no worker is running, the wallet in
\* memory and current_wallet.json name the same wallet (or there is neither),
\* and that wallet has a file in the wallets directory, after any sequence
\* of generate, import, switch and remove operations.
C30_MemoryAndFileAgree ==
    AllDone =>
        IF self_wallet_data = NoWallet
        THEN current_wallet_file = NoFile
        ELSE /\ current_wallet_file = self_wallet_data.classic_address
             /\ self_wallet_data.classic_address \in wallet_files

====
